---- MODULE Spec2Model ----
(***************************************************************************)
(* A model of the LZ4BlockArray / MessagePack decoder                      *)
(* (src/src/lz4_messagepack/src/main.rs, LZ4MessagePackProcessor) and of   *)
(* the encoder that builds its envelopes (src/src/lib.rs and the test      *)
(* helper create_test_block).                                              *)
(*                                                                         *)
(* Bytes are the integers 0..255 and byte strings are sequences of bytes.  *)
(* Offsets are 0-based as in the source: data[i] is written At(data, i).   *)
(* Text is a byte string holding its UTF-8 encoding.                       *)
(***************************************************************************)
EXTENDS Integers, Sequences, FiniteSets, TLC

VARIABLES
    input_json,     \* the input document, parsed: a JSON value
    output_format,  \* OutputFormat: "Json", "Hex", "Binary", "Human"
    pc,             \* position of process: "start", "loop", "done"
    blocks,         \* Vec<MessagePackExt> returned by process_input
    idx,            \* 0-based index of the next block of the for loop
    results,        \* Vec<(msgpack_output, human_readable)>
    ret,            \* value returned by process: [k |-> "none" | "Ok" | "Err", ...]
    call            \* record of a single call of one component on its own

vars == <<input_json, output_format, pc, blocks, idx, results, ret, call>>

(***************************************************************************)
(* Bounds of the model.                                                    *)
(***************************************************************************)
MaxUnits == 3         \* longest input document, in blocks and stray elements
MaxHeaderLen == 6     \* longest header drawn for get_uncompressed_size
MaxPayloadLen == 5    \* longest raw payload drawn for decompress_data
MaxElems == 6         \* longest array among the values that are encoded
MaxDescriptors == 4   \* longest descriptor sequence drawn for parse_input
MaxPartialLen == 5    \* longest input enumerated for parse_partial_messagepack
MaxProfileLen == 4    \* longest input enumerated for summarize_binary_data
MaxRecoverLen == 3    \* longest decompressed bytes drawn for the fallbacks
MaxPairs == 2         \* most entries of a map drawn for convert_value_to_json
MaxWindow == 3        \* sizes drawn on each side of a boundary of the header encoder

(***************************************************************************)
(* Byte strings.                                                           *)
(***************************************************************************)
Byte == 0..255

\* Marks a read past the end of a slice: Rust panics on such an index.
OutOfRange == 0 - 16777216

At(s, i) == IF i >= 0 /\ i < Len(s) THEN s[i + 1] ELSE OutOfRange

\* &s[off..]
From(s, off) == SubSeq(s, off + 1, Len(s))

\* &s[off..off+n]
Slice(s, off, n) == SubSeq(s, off + 1, off + n)

RECURSIVE SeqSum(_)
SeqSum(s) == IF s = <<>> THEN 0 ELSE Head(s) + SeqSum(Tail(s))

RECURSIVE Flatten(_)
Flatten(ss) == IF ss = <<>> THEN <<>> ELSE Head(ss) \o Flatten(Tail(ss))

Min(a, b) == IF a < b THEN a ELSE b

\* The n-byte big-endian encoding of v, 0 <= v < 256^n.
RECURSIVE ToBE(_, _)
ToBE(v, n) == IF n = 0 THEN <<>> ELSE ToBE(v \div 256, n - 1) \o <<v % 256>>

\* The value of the n big-endian bytes at off.  Values of 2^31 and more do
\* not fit the checker's integers: Saturated stands for every one of them,
\* and is larger than every length the model can hold.
Saturated == 65536 * 32767 + 65535

RECURSIVE FromBE(_, _, _)
FromBE(s, off, n) ==
    IF n = 0 THEN 0
    ELSE LET hi == FromBE(s, off, n - 1)
         IN  IF hi >= 8388608 THEN Saturated ELSE hi * 256 + s[off + n]

(***************************************************************************)
(* usize values that may exceed 31 bits: hi * 65536 + lo.                  *)
(***************************************************************************)
Wide(h, l) == [hi |-> h, lo |-> l]

WideOf(n) == Wide(n \div 65536, n % 65536)

IsUsize(w) == w.hi \in Nat /\ w.lo \in 0..65535

WideIsZero(w) == w.hi = 0 /\ w.lo = 0

\* w < n for a small constant n
WideLess(w, n) ==
    w.hi < n \div 65536 \/ (w.hi = n \div 65536 /\ w.lo < n % 65536)

\* w * k for a small factor k
WideMul(w, k) ==
    Wide(w.hi * k + (w.lo * k) \div 65536, (w.lo * k) % 65536)

\* `w as i32`: the low 32 bits, read as two's complement.
\* The result is [neg |-> BOOLEAN, w |-> magnitude when not negative].
AsI32(w) ==
    LET h == w.hi % 65536
    IN  [neg |-> h >= 32768, w |-> Wide(h, w.lo)]

(***************************************************************************)
(* get_uncompressed_size (main.rs 117-257).                                *)
(***************************************************************************)
\* ((header[off] as usize) << 8) | (header[off+1] as usize)
BigEndian16(header, off) ==
    Wide(0, At(header, off) * 256 + At(header, off + 1))

\* header[off] << 16 | header[off+1] << 8 | header[off+2]
BigEndian24(header, off) ==
    Wide(At(header, off), At(header, off + 1) * 256 + At(header, off + 2))

\* header[off] << 24 | header[off+1] << 16 | header[off+2] << 8 | header[off+3]
BigEndian32(header, off) ==
    Wide(At(header, off) * 256 + At(header, off + 1),
         At(header, off + 2) * 256 + At(header, off + 3))

\* (header[1] as usize) | ((header[2] as usize) << 8)
LittleEndian16(header) ==
    Wide(0, At(header, 1) + At(header, 2) * 256)

\* header[1] | header[2] << 8 | header[3] << 16 | header[4] << 24
LittleEndian32(header) ==
    Wide(At(header, 3) + At(header, 4) * 256,
         At(header, 1) + At(header, 2) * 256)

FallbackEstimate_Doubles(header) == WideOf(Len(header) * 2)

\* header.len() * 4, the 4:1 fallback estimate
FallbackEstimate(header) == WideOf(Len(header) * 4)

\* the guard of the uint16 rule: header[0] == 205 and header.len() >= 3
Uint16MarkerApplies_NoLengthCheck(header) == At(header, 0) = 205

Uint16MarkerApplies(header) == At(header, 0) = 205 /\ Len(header) >= 3

Uint32MarkerApplies_SixBytes(header) == At(header, 0) = 206 /\ Len(header) >= 6

\* the guard of the uint32 rule: header[0] == 206 and header.len() >= 5
Uint32MarkerApplies(header) == At(header, 0) = 206 /\ Len(header) >= 5

KnownSampleApplies_PrefixOnly(header) ==
    Len(header) >= 4 /\ At(header, 0) = 204 /\ At(header, 1) = 12

\* the pattern observed in the default input
KnownSampleApplies(header) ==
    /\ Len(header) >= 4
    /\ At(header, 0) = 204
    /\ At(header, 1) = 12
    /\ At(header, 2) = 229
    /\ At(header, 3) = 205

KnownSampleSize == 3941

LeadingByteOtherLength_NoLittleEndian(header) ==
    IF Len(header) > 2 /\ At(header, 1) = 205 /\ Len(header) >= 4
        THEN BigEndian16(header, 2)
    ELSE IF Len(header) > 2 /\ At(header, 1) = 206 /\ Len(header) >= 6
        THEN BigEndian32(header, 2)
    ELSE FallbackEstimate(header)

\* the `_` arm of the match on header.len(), for a header starting with 204
LeadingByteOtherLength(header) ==
    IF Len(header) > 2 /\ At(header, 1) = 205 /\ Len(header) >= 4
        THEN BigEndian16(header, 2)
    ELSE IF Len(header) > 2 /\ At(header, 1) = 206 /\ Len(header) >= 6
        THEN BigEndian32(header, 2)
    ELSE IF /\ Len(header) > 2
            /\ At(header, 1) \notin {205, 206}
            /\ Len(header) >= 3
            /\ ~WideIsZero(LittleEndian16(header))
            /\ WideLess(LittleEndian16(header), 100000)
        THEN LittleEndian16(header)
    ELSE IF /\ Len(header) > 2
            /\ At(header, 1) \notin {205, 206}
            /\ Len(header) >= 5
            /\ ~WideIsZero(LittleEndian32(header))
            /\ WideLess(LittleEndian32(header), 1000000)
        THEN LittleEndian32(header)
    ELSE FallbackEstimate(header)

LeadingByteRule_NoLengthMatch(header) == LeadingByteOtherLength(header)

\* the branch taken when header[0] == 204
LeadingByteRule(header) ==
    CASE Len(header) = 2 -> Wide(0, At(header, 1))
      [] Len(header) = 3 -> BigEndian16(header, 1)
      [] Len(header) = 4 -> BigEndian24(header, 1)
      [] Len(header) = 5 -> BigEndian32(header, 1)
      [] OTHER -> LeadingByteOtherLength(header)

get_uncompressed_size(header) ==
    IF Len(header) < 2 THEN WideOf(0)
    ELSE IF Uint16MarkerApplies(header) THEN BigEndian16(header, 1)
    ELSE IF Uint32MarkerApplies(header) THEN BigEndian32(header, 1)
    ELSE IF KnownSampleApplies(header) THEN WideOf(KnownSampleSize)
    ELSE IF At(header, 0) = 204 THEN LeadingByteRule(header)
    ELSE FallbackEstimate(header)

(***************************************************************************)
(* rmpv::Value, the self-describing value tree, and its wire format        *)
(* (rmpv::encode::write_value, rmpv::decode::read_value).                  *)
(***************************************************************************)
Nil == [t |-> "nil"]
Boolean(b) == [t |-> "bool", b |-> b]
Integer(n) == [t |-> "int", n |-> n]
\* an integer of 2^31 or more in magnitude: its marker and its wire bytes
WideInteger(marker, bytes) == [t |-> "wideint", m |-> marker, bytes |-> bytes]
F32(bits) == [t |-> "f32", bytes |-> bits]
F64(bits) == [t |-> "f64", bytes |-> bits]
String(bytes) == [t |-> "str", bytes |-> bytes]
Binary(bytes) == [t |-> "bin", bytes |-> bytes]
Array(items) == [t |-> "array", items |-> items]
Map(pairs) == [t |-> "map", pairs |-> pairs]
Ext(typ, bytes) == [t |-> "ext", ty |-> typ, bytes |-> bytes]

\* the two's complement byte of an i8, and back
I8ToByte(n) == IF n < 0 THEN n + 256 ELSE n
ByteToI8(b) == IF b >= 128 THEN b - 256 ELSE b

\* marker and length prefix of a str / bin / array / map of n elements
LenPrefix(fix, fixmax, m8, m16, m32, n) ==
    IF fixmax >= 0 /\ n <= fixmax THEN <<fix + n>>
    ELSE IF m8 >= 0 /\ n < 256 THEN <<m8>> \o ToBE(n, 1)
    ELSE IF n < 65536 THEN <<m16>> \o ToBE(n, 2)
    ELSE <<m32>> \o ToBE(n, 4)

write_uint(n) ==
    IF n < 128 THEN <<n>>
    ELSE IF n < 256 THEN <<204>> \o ToBE(n, 1)
    ELSE IF n < 65536 THEN <<205>> \o ToBE(n, 2)
    ELSE <<206>> \o ToBE(n, 4)

write_sint(n) ==
    IF n >= 0 - 32 THEN <<n + 256>>
    ELSE IF n >= 0 - 128 THEN <<208>> \o ToBE(n + 256, 1)
    ELSE IF n >= 0 - 32768 THEN <<209>> \o ToBE(n + 65536, 2)
    ELSE <<210>> \o ToBE(65536 + (n \div 65536), 2) \o ToBE(n % 65536, 2)

write_ext_meta(n) ==
    CASE n = 1 -> <<212>>
      [] n = 2 -> <<213>>
      [] n = 4 -> <<214>>
      [] n = 8 -> <<215>>
      [] n = 16 -> <<216>>
      [] OTHER -> IF n < 256 THEN <<199>> \o ToBE(n, 1)
                  ELSE IF n < 65536 THEN <<200>> \o ToBE(n, 2)
                  ELSE <<201>> \o ToBE(n, 4)

RECURSIVE write_value(_)
write_value(val) ==
    CASE val.t = "nil" -> <<192>>
      [] val.t = "bool" -> IF val.b THEN <<195>> ELSE <<194>>
      [] val.t = "int" -> IF val.n >= 0 THEN write_uint(val.n) ELSE write_sint(val.n)
      [] val.t = "wideint" -> <<val.m>> \o val.bytes
      [] val.t = "f32" -> <<202>> \o val.bytes
      [] val.t = "f64" -> <<203>> \o val.bytes
      [] val.t = "str" -> LenPrefix(160, 31, 217, 218, 219, Len(val.bytes)) \o val.bytes
      [] val.t = "bin" -> LenPrefix(0, 0 - 1, 196, 197, 198, Len(val.bytes)) \o val.bytes
      [] val.t = "array" ->
            LenPrefix(144, 15, 0 - 1, 220, 221, Len(val.items))
                \o Flatten([i \in 1..Len(val.items) |-> write_value(val.items[i])])
      [] val.t = "map" ->
            LenPrefix(128, 15, 0 - 1, 222, 223, Len(val.pairs))
                \o Flatten([i \in 1..Len(val.pairs) |->
                        write_value(val.pairs[i][1]) \o write_value(val.pairs[i][2])])
      [] val.t = "ext" ->
            write_ext_meta(Len(val.bytes)) \o <<I8ToByte(val.ty)>> \o val.bytes

\* A read result: ok, the value, and the cursor position after it.
ReadOk(val, pos) == [ok |-> TRUE, val |-> val, pos |-> pos]
ReadErr(pos) == [ok |-> FALSE, val |-> Nil, pos |-> pos]

\* a length-prefixed run of bytes: n bytes at off, made into a value by kind
ReadBytes(data, off, n, kind) ==
    IF n > Len(data) - off THEN ReadErr(Len(data))
    ELSE ReadOk([t |-> kind, bytes |-> Slice(data, off, n)], off + n)

\* an extension: the type byte at off, then n bytes
ReadExt(data, off, n) ==
    IF off >= Len(data) THEN ReadErr(Len(data))
    ELSE IF n > Len(data) - (off + 1) THEN ReadErr(Len(data))
    ELSE ReadOk(Ext(ByteToI8(At(data, off)), Slice(data, off + 1, n)), off + 1 + n)

\* an unsigned integer of n bytes at off
ReadUint(data, off, n, marker) ==
    IF n > Len(data) - off THEN ReadErr(Len(data))
    ELSE IF FromBE(data, off, n) = Saturated
        THEN ReadOk(WideInteger(marker, Slice(data, off, n)), off + n)
    ELSE ReadOk(Integer(FromBE(data, off, n)), off + n)

\* a signed integer of n <= 2 bytes at off
ReadSintSmall(data, off, n) ==
    IF n > Len(data) - off THEN ReadErr(Len(data))
    ELSE LET u == FromBE(data, off, n)
             half == IF n = 1 THEN 128 ELSE 32768
         IN  ReadOk(Integer(IF u >= half THEN u - 2 * half ELSE u), off + n)

\* the 32-bit two's complement value of the 4 bytes at off
Signed32(data, off) ==
    LET h == FromBE(data, off, 2)
        l == FromBE(data, off + 2, 2)
    IN  (IF h >= 32768 THEN h - 65536 ELSE h) * 65536 + l

\* a signed integer of 4 or 8 bytes at off
ReadSintWide(data, off, n, marker) ==
    IF n > Len(data) - off THEN ReadErr(Len(data))
    ELSE IF n = 4 THEN ReadOk(Integer(Signed32(data, off)), off + n)
    ELSE IF \/ /\ \A i \in 0..3 : At(data, off + i) = 0
               /\ At(data, off + 4) < 128
            \/ /\ \A i \in 0..3 : At(data, off + i) = 255
               /\ At(data, off + 4) >= 128
        THEN ReadOk(Integer(Signed32(data, off + 4)), off + n)
    ELSE ReadOk(WideInteger(marker, Slice(data, off, n)), off + n)

\* a 1, 2 or 4 byte length at off: [ok, n, pos]
ReadLen(data, off, n) ==
    IF n > Len(data) - off THEN [ok |-> FALSE, n |-> 0, pos |-> Len(data)]
    ELSE [ok |-> TRUE, n |-> FromBE(data, off, n), pos |-> off + n]

RECURSIVE read_value_at(_, _)
RECURSIVE read_items(_, _, _)

\* n values in a row from off: [ok, vals, pos]
read_items(data, off, n) ==
    IF n = 0 THEN [ok |-> TRUE, vals |-> <<>>, pos |-> off]
    ELSE LET first == read_value_at(data, off)
         IN  IF ~first.ok THEN [ok |-> FALSE, vals |-> <<>>, pos |-> first.pos]
             ELSE LET rest == read_items(data, first.pos, n - 1)
                  IN  [ok |-> rest.ok,
                       vals |-> <<first.val>> \o rest.vals,
                       pos |-> rest.pos]

ReadArray(data, off, n) ==
    LET r == read_items(data, off, n)
    IN  IF r.ok THEN ReadOk(Array(r.vals), r.pos) ELSE ReadErr(r.pos)

ReadMap(data, off, n) ==
    IF n > Len(data) THEN ReadErr(Len(data))
    ELSE LET r == read_items(data, off, 2 * n)
         IN  IF r.ok
             THEN ReadOk(Map([i \in 1..n |-> <<r.vals[2 * i - 1], r.vals[2 * i]>>]),
                         r.pos)
             ELSE ReadErr(r.pos)

\* a value whose length field of k bytes follows the marker
ReadSized(data, off, k, kind) ==
    LET l == ReadLen(data, off, k)
    IN  IF ~l.ok THEN ReadErr(l.pos)
        ELSE CASE kind = "ext" -> ReadExt(data, l.pos, l.n)
               [] kind = "array" ->
                    IF l.n > Len(data) THEN ReadErr(Len(data))
                    ELSE ReadArray(data, l.pos, l.n)
               [] kind = "map" -> ReadMap(data, l.pos, l.n)
               [] OTHER -> ReadBytes(data, l.pos, l.n, kind)

\* read_value on the bytes of data from off on
read_value_at(data, off) ==
    IF off >= Len(data) THEN ReadErr(Len(data))
    ELSE LET m == At(data, off)
             p == off + 1
         IN  CASE m < 128 -> ReadOk(Integer(m), p)
               [] m >= 128 /\ m < 144 -> ReadMap(data, p, m - 128)
               [] m >= 144 /\ m < 160 -> ReadArray(data, p, m - 144)
               [] m >= 160 /\ m < 192 -> ReadBytes(data, p, m - 160, "str")
               [] m = 192 -> ReadOk(Nil, p)
               [] m = 193 -> ReadErr(p)
               [] m = 194 -> ReadOk(Boolean(FALSE), p)
               [] m = 195 -> ReadOk(Boolean(TRUE), p)
               [] m = 196 -> ReadSized(data, p, 1, "bin")
               [] m = 197 -> ReadSized(data, p, 2, "bin")
               [] m = 198 -> ReadSized(data, p, 4, "bin")
               [] m = 199 -> ReadSized(data, p, 1, "ext")
               [] m = 200 -> ReadSized(data, p, 2, "ext")
               [] m = 201 -> ReadSized(data, p, 4, "ext")
               [] m = 202 -> ReadBytes(data, p, 4, "f32")
               [] m = 203 -> ReadBytes(data, p, 8, "f64")
               [] m = 204 -> ReadUint(data, p, 1, m)
               [] m = 205 -> ReadUint(data, p, 2, m)
               [] m = 206 -> ReadUint(data, p, 4, m)
               [] m = 207 -> ReadUint(data, p, 8, m)
               [] m = 208 -> ReadSintSmall(data, p, 1)
               [] m = 209 -> ReadSintSmall(data, p, 2)
               [] m = 210 -> ReadSintWide(data, p, 4, m)
               [] m = 211 -> ReadSintWide(data, p, 8, m)
               [] m = 212 -> ReadExt(data, p, 1)
               [] m = 213 -> ReadExt(data, p, 2)
               [] m = 214 -> ReadExt(data, p, 4)
               [] m = 215 -> ReadExt(data, p, 8)
               [] m = 216 -> ReadExt(data, p, 16)
               [] m = 217 -> ReadSized(data, p, 1, "str")
               [] m = 218 -> ReadSized(data, p, 2, "str")
               [] m = 219 -> ReadSized(data, p, 4, "str")
               [] m = 220 -> ReadSized(data, p, 2, "array")
               [] m = 221 -> ReadSized(data, p, 4, "array")
               [] m = 222 -> ReadSized(data, p, 2, "map")
               [] m = 223 -> ReadSized(data, p, 4, "map")
               [] OTHER -> ReadOk(Integer(m - 256), p)

\* read_value(&mut Cursor::new(data))
read_value(data) == read_value_at(data, 0)

(***************************************************************************)
(* serde_json::Value.  An object is a function from its keys (text) to     *)
(* values: serde_json::Map keeps one value per key.                        *)
(***************************************************************************)
JNull == [t |-> "null"]
JBool(b) == [t |-> "bool", b |-> b]
JNumber(n) == [t |-> "number", n |-> n]
\* a number of 2^31 or more in magnitude, as the 8 bytes of its i64
JWideNumber(bytes) == [t |-> "widenumber", bytes |-> bytes]
\* a finite floating point number, as its width and bits
JFloat(width, bits) == [t |-> "float", w |-> width, bytes |-> bits]
JString(text) == [t |-> "string", bytes |-> text]
JArray(items) == [t |-> "array", items |-> items]
JObject(members) == [t |-> "object", members |-> members]

\* the pattern JsonValue::Number(_)
IsJsonNumber(j) == j.t \in {"number", "widenumber", "float"}
\* the pattern JsonValue::String(_)
IsJsonString(j) == j.t = "string"

\* serde_json::Map::new() and Map::insert, which replaces an equal key
EmptyMap == [k \in {} |-> JNull]
MapInsert(m, key, val) == (key :> val) @@ m

\* the texts the program writes
TextType == <<116, 121, 112, 101>>
TextTitle == <<116, 105, 116, 108, 101>>
TextStatus == <<115, 116, 97, 116, 117, 115>>
TextDetail == <<100, 101, 116, 97, 105, 108>>
TextInstance == <<105, 110, 115, 116, 97, 110, 99, 101>>
TextError == <<101, 114, 114, 111, 114>>
TextRawString == <<114, 97, 119, 95, 115, 116, 114, 105, 110, 103>>
TextExtType == <<101, 120, 116, 95, 116, 121, 112, 101>>
TextExtData == <<101, 120, 116, 95, 100, 97, 116, 97>>
TextFailedToDecompress ==
    <<70, 97, 105, 108, 101, 100, 32, 116, 111, 32, 100, 101, 99, 111, 109,
      112, 114, 101, 115, 115, 32, 100, 97, 116, 97, 32, 97, 102, 116, 101,
      114, 32, 109, 117, 108, 116, 105, 112, 108, 101, 32, 97, 116, 116, 101,
      109, 112, 116, 115>>
TextFailedToProcess ==
    <<70, 97, 105, 108, 101, 100, 32, 116, 111, 32, 112, 114, 111, 99, 101,
      115, 115, 32, 100, 101, 99, 111, 109, 112, 114, 101, 115, 115, 101,
      100, 32, 100, 97, 116, 97>>
\* the keys and the labels of the summary of summarize_binary_data
ProfileText ==
    [summary |-> <<115, 117, 109, 109, 97, 114, 121>>,
     zero_percentage |->
        <<122, 101, 114, 111, 95, 112, 101, 114, 99, 101, 110, 116, 97, 103,
         101>>,
     text_percentage |->
        <<116, 101, 120, 116, 95, 112, 101, 114, 99, 101, 110, 116, 97, 103,
         101>>,
     most_common_bytes |->
        <<109, 111, 115, 116, 95, 99, 111, 109, 109, 111, 110, 95, 98, 121,
         116, 101, 115>>,
     first_32_bytes |->
        <<102, 105, 114, 115, 116, 95, 51, 50, 95, 98, 121, 116, 101, 115>>,
     byte |-> <<98, 121, 116, 101>>,
     hex |-> <<104, 101, 120>>,
     ascii |-> <<97, 115, 99, 105, 105>>,
     count |-> <<99, 111, 117, 110, 116>>,
     percentage |-> <<112, 101, 114, 99, 101, 110, 116, 97, 103, 101>>,
     not_available |-> <<78, 47, 65>>,
     nan |-> <<78, 97, 78>>,
     inf |-> <<105, 110, 102>>,
     binary_data |-> <<66, 105, 110, 97, 114, 121, 32, 100, 97, 116, 97>>,
     total_bytes |-> <<116, 111, 116, 97, 108, 95, 98, 121, 116, 101, 115>>,
     zero_bytes |-> <<122, 101, 114, 111, 95, 98, 121, 116, 101, 115>>,
     ascii_text_bytes |->
        <<97, 115, 99, 105, 105, 95, 116, 101, 120, 116, 95, 98, 121, 116,
         101, 115>>,
     control_bytes |->
        <<99, 111, 110, 116, 114, 111, 108, 95, 98, 121, 116, 101, 115>>,
     high_bytes |-> <<104, 105, 103, 104, 95, 98, 121, 116, 101, 115>>,
     appears_to_be |->
        <<97, 112, 112, 101, 97, 114, 115, 95, 116, 111, 95, 98, 101>>,
     mostly_ascii |->
        <<77, 111, 115, 116, 108, 121, 32, 65, 83, 67, 73, 73, 32, 116, 101,
         120, 116>>,
     many_zero |->
        <<67, 111, 110, 116, 97, 105, 110, 115, 32, 109, 97, 110, 121, 32,
         122, 101, 114, 111, 32, 98, 121, 116, 101, 115, 32, 40, 112, 111,
         115, 115, 105, 98, 108, 121, 32, 112, 97, 100, 100, 101, 100, 32,
         100, 97, 116, 97, 32, 111, 114, 32, 110, 117, 108, 108, 45, 116,
         101, 114, 109, 105, 110, 97, 116, 101, 100, 32, 115, 116, 114, 105,
         110, 103, 115, 41>>,
     many_high |->
        <<67, 111, 110, 116, 97, 105, 110, 115, 32, 109, 97, 110, 121, 32,
         104, 105, 103, 104, 32, 98, 121, 116, 101, 115, 32, 40, 112, 111,
         115, 115, 105, 98, 108, 121, 32, 99, 111, 109, 112, 114, 101, 115,
         115, 101, 100, 32, 111, 114, 32, 101, 110, 99, 114, 121, 112, 116,
         101, 100, 32, 100, 97, 116, 97, 41>>,
     general_binary |->
        <<71, 101, 110, 101, 114, 97, 108, 32, 98, 105, 110, 97, 114, 121,
         32, 100, 97, 116, 97>>]

(***************************************************************************)
(* UTF-8 (String::from_utf8, Utf8String::as_str, char::is_control).        *)
(***************************************************************************)
IsCont(b) == b >= 128 /\ b <= 191

\* the length of the well-formed UTF-8 sequence at off, or 0 when ill-formed
Utf8SeqLen(s, off) ==
    LET b0 == At(s, off)
        b1 == At(s, off + 1)
        b2 == At(s, off + 2)
        b3 == At(s, off + 3)
    IN  IF b0 < 128 THEN 1
        ELSE IF b0 >= 194 /\ b0 <= 223 /\ IsCont(b1) THEN 2
        ELSE IF /\ b0 >= 224 /\ b0 <= 239
                /\ IsCont(b1) /\ IsCont(b2)
                /\ (b0 = 224 => b1 >= 160)
                /\ (b0 = 237 => b1 <= 159)
            THEN 3
        ELSE IF /\ b0 >= 240 /\ b0 <= 244
                /\ IsCont(b1) /\ IsCont(b2) /\ IsCont(b3)
                /\ (b0 = 240 => b1 >= 144)
                /\ (b0 = 244 => b1 <= 143)
            THEN 4
        ELSE 0

RECURSIVE Utf8ValidFrom(_, _)
Utf8ValidFrom(s, off) ==
    IF off >= Len(s) THEN TRUE
    ELSE IF Utf8SeqLen(s, off) = 0 THEN FALSE
    ELSE Utf8ValidFrom(s, off + Utf8SeqLen(s, off))

Utf8Valid(s) == Utf8ValidFrom(s, 0)

\* char::is_control for the character of valid text s at off:
\* U+0000..U+001F, U+007F and U+0080..U+009F
IsControlAt(s, off) ==
    \/ At(s, off) < 32
    \/ At(s, off) = 127
    \/ (At(s, off) = 194 /\ At(s, off + 1) <= 159)

\* s.chars().any(|c| !c.is_control()), for valid text s
RECURSIVE AnyNonControlFrom(_, _)
AnyNonControlFrom(s, off) ==
    IF off >= Len(s) THEN FALSE
    ELSE IF ~IsControlAt(s, off) THEN TRUE
    ELSE AnyNonControlFrom(s, off + Utf8SeqLen(s, off))

(***************************************************************************)
(* convert_value_to_json (main.rs 580-616).                                *)
(***************************************************************************)
\* json!(bytes.iter().collect::<Vec<u8>>())
ByteArrayJson(bytes) == JArray([i \in 1..Len(bytes) |-> JNumber(bytes[i])])

\* json!(i.as_i64()) for an integer too wide for the checker: a u64 above
\* i64::MAX has no i64 and becomes null
WideIntegerJson(val) ==
    IF val.m = 207 /\ val.bytes[1] >= 128 THEN JNull
    ELSE IF val.m = 206 THEN JWideNumber(<<0, 0, 0, 0>> \o val.bytes)
    ELSE JWideNumber(val.bytes)

\* json!(f): a float that is not finite becomes null
FloatJson(val) ==
    LET e == IF val.t = "f32"
             THEN val.bytes[1] % 128 = 127 /\ val.bytes[2] >= 128
             ELSE val.bytes[1] % 128 = 127 /\ val.bytes[2] >= 240
    IN  IF e THEN JNull
        ELSE JFloat(IF val.t = "f32" THEN 32 ELSE 64, val.bytes)

KeepsKey_AnyKey(k) == k.t \in {"str", "bin"}

\* the map arm keeps an entry only when its key is a string of valid text
KeepsKey(k) == k.t = "str" /\ Utf8Valid(k.bytes)


RECURSIVE convert_value_to_json(_)
RECURSIVE ConvertMap(_, _)

\* the for loop of the map arm, over the pairs not yet visited
ConvertMap(pairs, obj) ==
    IF pairs = <<>> THEN obj
    ELSE LET k == Head(pairs)[1]
             v == Head(pairs)[2]
         IN  ConvertMap(Tail(pairs),
                        IF KeepsKey(k)
                        THEN MapInsert(obj, k.bytes, convert_value_to_json(v))
                        ELSE obj)

convert_value_to_json(val) ==
    CASE val.t = "nil" -> JNull
      [] val.t = "bool" -> JBool(val.b)
      [] val.t = "int" -> JNumber(val.n)
      [] val.t = "wideint" -> WideIntegerJson(val)
      [] val.t \in {"f32", "f64"} -> FloatJson(val)
      [] val.t = "str" -> IF Utf8Valid(val.bytes) THEN JString(val.bytes) ELSE JNull
      [] val.t = "bin" -> ByteArrayJson(val.bytes)
      [] val.t = "array" ->
            JArray([i \in 1..Len(val.items) |-> convert_value_to_json(val.items[i])])
      [] val.t = "map" -> JObject(ConvertMap(val.pairs, EmptyMap))
      [] val.t = "ext" ->
            JObject(MapInsert(MapInsert(EmptyMap, TextExtType, JNumber(val.ty)),
                              TextExtData, ByteArrayJson(val.bytes)))

(***************************************************************************)
(* summarize_binary_data (main.rs 515-577): the byte classes and the       *)
(* classification label.                                                   *)
(***************************************************************************)
\* data.iter().filter(..).count() for a class of bytes
CountBytes(data, class) == Cardinality({i \in 1..Len(data) : data[i] \in class})

\* the classes of the four filters
IsZeroByte == {b \in Byte : b = 0}
IsTextByte == {b \in Byte : (b >= 32 /\ b <= 126) \/ b = 9 \/ b = 10 \/ b = 13}
IsControlByte == {b \in Byte : b < 32 /\ b # 9 /\ b # 10 /\ b # 13}
IsHighByte == {b \in Byte : b > 127}

AppearsToBe_AtLeast(data) ==
    LET total_bytes == Len(data)
    IN  IF CountBytes(data, IsTextByte) >= (total_bytes * 3) \div 4
            THEN ProfileText.mostly_ascii
        ELSE IF CountBytes(data, IsZeroByte) >= total_bytes \div 3
            THEN ProfileText.many_zero
        ELSE IF CountBytes(data, IsHighByte) >= total_bytes \div 2
            THEN ProfileText.many_high
        ELSE ProfileText.general_binary

\* the label of appears_to_be (main.rs 567-575)
AppearsToBe(data) ==
    LET total_bytes == Len(data)
    IN  IF CountBytes(data, IsTextByte) > (total_bytes * 3) \div 4
            THEN ProfileText.mostly_ascii
        ELSE IF CountBytes(data, IsZeroByte) > total_bytes \div 3
            THEN ProfileText.many_zero
        ELSE IF CountBytes(data, IsHighByte) > total_bytes \div 2
            THEN ProfileText.many_high
        ELSE ProfileText.general_binary

\* format!("{}", n) of an unsigned integer
RECURSIVE DecimalText(_)
DecimalText(n) ==
    IF n < 10 THEN <<48 + n>> ELSE DecimalText(n \div 10) \o <<48 + (n % 10)>>

\* one digit of format!("{:x}", ..)
HexDigit(d) == IF d < 10 THEN 48 + d ELSE 87 + d

\* format!("{:.2}%", (c as f64 / total_bytes as f64) * 100.0).  A division
\* of 64-bit floats by zero does not trap: 0/0 is NaN and c/0 is infinite,
\* and both are formatted by name.  Otherwise the quotient is rounded to two
\* decimals, a tie to the even digit (a tie needs total_bytes to be a
\* multiple of 32, and is then exact in binary).
Percentage(c, total_bytes) ==
    IF total_bytes = 0
    THEN (IF c = 0 THEN ProfileText.nan ELSE ProfileText.inf) \o <<37>>
    ELSE LET scaled == c * 10000
             q == scaled \div total_bytes
             twice == 2 * (scaled % total_bytes)
             h == IF twice > total_bytes \/ (twice = total_bytes /\ q % 2 = 1)
                  THEN q + 1 ELSE q
         IN  DecimalText(h \div 100)
             \o <<46, 48 + ((h \div 10) % 10), 48 + (h % 10), 37>>

\* the bytes of `left` that occur in data, by falling count; the sort is
\* stable, so bytes of equal count stay in rising order
RECURSIVE common_bytes(_, _)
common_bytes(data, left) ==
    IF left = {} THEN <<>>
    ELSE LET first == CHOOSE b \in left : \A o \in left :
                        \/ CountBytes(data, {b}) > CountBytes(data, {o})
                        \/ /\ CountBytes(data, {b}) = CountBytes(data, {o})
                           /\ b <= o
         IN  <<first>> \o common_bytes(data, left \ {first})

summarize_binary_data(data) ==
    LET total_bytes == Len(data)
        common == common_bytes(data, {data[i] : i \in 1..Len(data)})
        top_bytes ==
            [k \in 1..Min(10, Len(common)) |->
                LET b == common[k]
                    c == CountBytes(data, {b})
                IN  JObject(
                        (ProfileText.byte :> JNumber(b))
                        @@ (ProfileText.hex :>
                              JString(<<48, 120, HexDigit(b \div 16), HexDigit(b % 16)>>))
                        @@ (ProfileText.ascii :>
                              JString(IF b >= 32 /\ b <= 126 THEN <<b>>
                                      ELSE ProfileText.not_available))
                        @@ (ProfileText.count :> JNumber(c))
                        @@ (ProfileText.percentage :>
                              JString(Percentage(c, total_bytes))))]
        first_32 ==
            Flatten([i \in 1..Min(32, Len(data)) |->
                        (IF i = 1 THEN <<>> ELSE <<32>>)
                        \o <<HexDigit(data[i] \div 16), HexDigit(data[i] % 16)>>])
    IN  JObject(
        (ProfileText.summary :> JString(ProfileText.binary_data))
        @@ (ProfileText.total_bytes :> JNumber(total_bytes))
        @@ (ProfileText.zero_bytes :> JNumber(CountBytes(data, IsZeroByte)))
        @@ (ProfileText.zero_percentage :>
              JString(Percentage(CountBytes(data, IsZeroByte), total_bytes)))
        @@ (ProfileText.ascii_text_bytes :> JNumber(CountBytes(data, IsTextByte)))
        @@ (ProfileText.text_percentage :>
              JString(Percentage(CountBytes(data, IsTextByte), total_bytes)))
        @@ (ProfileText.control_bytes :> JNumber(CountBytes(data, IsControlByte)))
        @@ (ProfileText.high_bytes :> JNumber(CountBytes(data, IsHighByte)))
        @@ (ProfileText.most_common_bytes :> JArray(top_bytes))
        @@ (ProfileText.first_32_bytes :> JString(first_32))
        @@ (ProfileText.appears_to_be :> JString(AppearsToBe(data))))

(***************************************************************************)
(* parse_partial_messagepack (main.rs 480-512).                            *)
(***************************************************************************)
PartialLimit == 100

PartialIteration_Stalls(data, offset, result) ==
    LET match(r) ==
            IF r.ok /\ r.pos # 0
            THEN [offset |-> offset + r.pos,
                  result |-> Append(result, convert_value_to_json(r.val))]
            ELSE [offset |-> offset, result |-> result]
    IN  match(read_value(From(data, offset)))

\* one pass of the body of the while loop, up to the check of the limit:
\* the offset and the result after it
PartialIteration(data, offset, result) ==
    LET match(r) ==
            IF r.ok /\ r.pos # 0
            THEN [offset |-> offset + r.pos,
                  result |-> Append(result, convert_value_to_json(r.val))]
            ELSE [offset |-> offset + 1, result |-> result]
    IN  match(read_value(From(data, offset)))

\* the while loop from `offset` with `result` collected so far
RECURSIVE PartialLoop(_, _, _)
PartialLoop(data, offset, result) ==
    IF ~(offset < Len(data)) THEN result
    ELSE LET next(it) ==
                IF Len(it.result) >= PartialLimit THEN it.result
                ELSE PartialLoop(data, it.offset, it.result)
         IN  next(PartialIteration(data, offset, result))

parse_partial_messagepack(data) == PartialLoop(data, 0, <<>>)

(***************************************************************************)
(* process_decompressed_data (main.rs 382-477).                            *)
(***************************************************************************)
PromotedFields_TitleFromType(items) ==
    LET f1 == IF IsJsonString(items[1])
              THEN MapInsert(EmptyMap, TextType, items[1]) ELSE EmptyMap
        f2 == IF IsJsonString(items[2])
              THEN MapInsert(f1, TextTitle, items[1]) ELSE f1
        f3 == IF IsJsonNumber(items[3])
              THEN MapInsert(f2, TextStatus, items[3]) ELSE f2
        f4 == IF IsJsonString(items[4])
              THEN MapInsert(f3, TextDetail, items[4]) ELSE f3
        f5 == IF IsJsonString(items[5])
              THEN MapInsert(f4, TextInstance, items[5]) ELSE f4
    IN  f5

\* the five positional checks of the shape promotion, each inserting its
\* field when the element has the expected type
PromotedFields(items) ==
    LET f1 == IF IsJsonString(items[1])
              THEN MapInsert(EmptyMap, TextType, items[1]) ELSE EmptyMap
        f2 == IF IsJsonString(items[2])
              THEN MapInsert(f1, TextTitle, items[2]) ELSE f1
        f3 == IF IsJsonNumber(items[3])
              THEN MapInsert(f2, TextStatus, items[3]) ELSE f2
        f4 == IF IsJsonString(items[4])
              THEN MapInsert(f3, TextDetail, items[4]) ELSE f3
        f5 == IF IsJsonString(items[5])
              THEN MapInsert(f4, TextInstance, items[5]) ELSE f4
    IN  f5

PromotionTriggers_AllFive(items) == Cardinality(DOMAIN PromotedFields(items)) = 5

\* `if !result.is_empty()`: the promoted object is returned
PromotionTriggers(items) == DOMAIN PromotedFields(items) # {}


\* the Ok arm of read_value: conversion, then the shape promotion
StructuredValue(val) ==
    LET json_value == convert_value_to_json(val)
    IN  IF /\ json_value.t = "array"
           /\ Len(json_value.items) >= 5
           /\ PromotionTriggers(json_value.items)
        THEN JObject(PromotedFields(json_value.items))
        ELSE json_value

\* s.trim(): the offsets of the first and last byte that is not white space
\* (the white space of one or two bytes; wider white space is not drawn)
IsSpaceAt(s, off) ==
    \/ At(s, off) \in {9, 10, 11, 12, 13, 32}
    \/ (At(s, off) = 194 /\ At(s, off + 1) \in {133, 160})

RECURSIVE TrimStart(_, _)
TrimStart(s, off) ==
    IF off >= Len(s) \/ ~IsSpaceAt(s, off) THEN off
    ELSE TrimStart(s, off + Utf8SeqLen(s, off))

\* s.trim().starts_with('{') || s.trim().starts_with('[')
LooksLikeJson(s) == At(s, TrimStart(s, 0)) \in {123, 91}

\* serde_json::from_str over the documents the model can hold: an empty
\* object or an empty array between white space; any other text fails
RECURSIVE AllSpaceFrom(_, _)
AllSpaceFrom(s, off) ==
    IF off >= Len(s) THEN TRUE
    ELSE IsSpaceAt(s, off) /\ At(s, off) < 128 /\ AllSpaceFrom(s, off + 1)

serde_json_from_str(s) ==
    LET o == TrimStart(s, 0)
    IN  IF At(s, o) = 123 /\ At(s, o + 1) = 125 /\ AllSpaceFrom(s, o + 2)
            THEN [ok |-> TRUE, val |-> JObject(EmptyMap)]
        ELSE IF At(s, o) = 91 /\ At(s, o + 1) = 93 /\ AllSpaceFrom(s, o + 2)
            THEN [ok |-> TRUE, val |-> JArray(<<>>)]
        ELSE [ok |-> FALSE, val |-> JNull]

\* the arm taken when the bytes are valid text
TextValue(decompressed) ==
    IF AnyNonControlFrom(decompressed, 0)
    THEN IF LooksLikeJson(decompressed) /\ serde_json_from_str(decompressed).ok
         THEN serde_json_from_str(decompressed).val
         ELSE JObject(MapInsert(EmptyMap, TextRawString, JString(decompressed)))
    ELSE summarize_binary_data(decompressed)

RecoveredValue_TextFirst(decompressed) ==
    LET partial_values == parse_partial_messagepack(decompressed)
    IN  IF Utf8Valid(decompressed) THEN TextValue(decompressed)
        ELSE IF partial_values # <<>> THEN JArray(partial_values)
        ELSE summarize_binary_data(decompressed)

\* the Err arm of read_value: partial recovery, then text, then the profiler
RecoveredValue(decompressed) ==
    LET partial_values == parse_partial_messagepack(decompressed)
    IN  IF partial_values # <<>> THEN JArray(partial_values)
        ELSE IF Utf8Valid(decompressed) THEN TextValue(decompressed)
        ELSE summarize_binary_data(decompressed)

\* Result<JsonValue, String>: [ok, val]
process_decompressed_data(decompressed) ==
    LET match(r) ==
            IF r.ok THEN [ok |-> TRUE, val |-> StructuredValue(r.val)]
            ELSE [ok |-> TRUE, val |-> RecoveredValue(decompressed)]
    IN  IF decompressed = <<>> THEN [ok |-> FALSE, val |-> JNull]
        ELSE match(read_value(decompressed))

(***************************************************************************)
(* The LZ4 block format as lz4::block::compress and lz4::block::decompress *)
(* handle it (the lz4 crate over LZ4_compress_default and                  *)
(* LZ4_decompress_safe).                                                   *)
(***************************************************************************)
DecOk(bytes) == [ok |-> TRUE, out |-> bytes]
DecErr == [ok |-> FALSE, out |-> <<>>]

\* cap >= n for an output capacity cap and a small n
CapAtLeast(cap, n) == cap.hi > 0 \/ cap.lo >= n

\* a length nibble with its extension bytes from ip on: [ok, len, ip].
\* The extension may not reach the last `tail` bytes of the input.
RECURSIVE RunExtension(_, _, _, _)
RunExtension(src, ip, acc, tail) ==
    IF ip >= Len(src) - tail THEN [ok |-> FALSE, len |-> 0, ip |-> ip]
    ELSE IF At(src, ip) = 255 THEN RunExtension(src, ip + 1, acc + 255, tail)
    ELSE [ok |-> TRUE, len |-> acc + At(src, ip), ip |-> ip + 1]

RunLength(src, ip, nibble, tail) ==
    IF nibble < 15 THEN [ok |-> TRUE, len |-> nibble, ip |-> ip]
    ELSE RunExtension(src, ip, 15, tail)

\* the overlapping copy of n bytes from `offset` bytes back
RECURSIVE CopyMatch(_, _, _)
CopyMatch(out, offset, n) ==
    IF n = 0 THEN out
    ELSE CopyMatch(Append(out, out[Len(out) - offset + 1]), offset, n - 1)

\* the sequences of a block from ip on, with `out` already written
RECURSIVE Lz4Sequences(_, _, _, _)
Lz4Sequences(src, ip, out, cap) ==
    LET token == At(src, ip)
        lit == RunLength(src, ip + 1, token \div 16, 0)
    IN  IF ~lit.ok THEN DecErr
        ELSE IF \/ ~CapAtLeast(cap, Len(out) + lit.len + 12)
                \/ lit.ip + lit.len > Len(src) - 8
        THEN \* the last sequence: literals only, ending the input exactly
             IF lit.ip + lit.len = Len(src) /\ CapAtLeast(cap, Len(out) + lit.len)
             THEN DecOk(out \o Slice(src, lit.ip, lit.len))
             ELSE DecErr
        ELSE LET out2 == out \o Slice(src, lit.ip, lit.len)
                 ip2 == lit.ip + lit.len
                 offset == At(src, ip2) + At(src, ip2 + 1) * 256
                 mat == RunLength(src, ip2 + 2, token % 16, 4)
             IN  IF ~mat.ok THEN DecErr
                 ELSE IF offset = 0 \/ offset > Len(out2) THEN DecErr
                 ELSE IF ~CapAtLeast(cap, Len(out2) + mat.len + 4 + 5) THEN DecErr
                 ELSE Lz4Sequences(src, mat.ip,
                                   CopyMatch(out2, offset, mat.len + 4), cap)

\* LZ4_decompress_safe(src, dst, src.len(), cap)
LZ4_decompress_safe(src, cap) ==
    IF WideIsZero(cap) THEN (IF src = <<0>> THEN DecOk(<<>>) ELSE DecErr)
    ELSE IF src = <<>> THEN DecErr
    ELSE Lz4Sequences(src, 0, <<>>, cap)

\* the extension bytes of a literal run of n >= 15 bytes
RECURSIVE LengthExtension(_)
LengthExtension(n) ==
    IF n >= 255 THEN <<255>> \o LengthExtension(n - 255) ELSE <<n>>

\* lz4::block::compress(src, None, false): no size prefix.  An input
\* shorter than 13 bytes is emitted as one run of literals, and so is any
\* input in which the compressor finds no match.
compress(src) ==
    IF Len(src) < 15 THEN <<Len(src) * 16>> \o src
    ELSE <<240>> \o LengthExtension(Len(src) - 15) \o src

\* Option<i32>
NoSize == [some |-> FALSE]
SomeSize(i32) == [some |-> TRUE, neg |-> i32.neg, w |-> i32.w]

\* LZ4_compressBound(size) <= 0: size above LZ4_MAX_INPUT_SIZE, 0x7E000000
TooBig(w) == w.hi > 32256 \/ (w.hi = 32256 /\ w.lo > 0)

\* the size prefix decompress reads when it is given no size: an i32,
\* little-endian, in the first four bytes
SizePrefix(src) ==
    [neg |-> At(src, 3) >= 128,
     w |-> Wide(At(src, 2) + At(src, 3) * 256, At(src, 0) + At(src, 1) * 256)]

\* lz4::block::decompress(src, uncompressed_size)
decompress(src, uncompressed_size) ==
    IF uncompressed_size.some
    THEN IF uncompressed_size.neg \/ TooBig(uncompressed_size.w) THEN DecErr
         ELSE LZ4_decompress_safe(src, uncompressed_size.w)
    ELSE IF Len(src) < 4 THEN DecErr
         ELSE IF SizePrefix(src).neg \/ TooBig(SizePrefix(src).w) THEN DecErr
         ELSE LZ4_decompress_safe(From(src, 4), SizePrefix(src).w)

(***************************************************************************)
(* decompress_data (main.rs 280-379).                                      *)
(***************************************************************************)
MaxSizeFactor_Divides(w) ==
    IF w.hi = 0 THEN Wide(0, w.lo \div 10) ELSE Wide(w.hi \div 10, w.lo)

\* the bound of strategy 1
MaxSizeFactor(w) == WideMul(w, 10)


max_size(data, uncompressed_size) ==
    IF ~WideIsZero(uncompressed_size)
    THEN MaxSizeFactor(uncompressed_size)
    ELSE MaxSizeFactor(WideOf(Len(data)))

\* One attempt: the strategy, the offset into data and the size handed to
\* decompress.
Attempt(strategy, offset, size) ==
    [strategy |-> strategy, offset |-> offset, size |-> size]

\* the LZ4 frame magic number 04 22 4D 18 at offset i
MagicAt(data, i) ==
    /\ i + 4 <= Len(data)
    /\ At(data, i) = 4
    /\ At(data, i + 1) = 34
    /\ At(data, i + 2) = 77
    /\ At(data, i + 3) = 24


\* the offsets the loop of strategy 6 stops at: the first magic number
MagicOffsets(data) ==
    LET found == {i \in 0..(Min(Len(data), 20) - 1) : MagicAt(data, i)}
    IN  IF found = {} THEN <<>>
        ELSE <<CHOOSE i \in found : \A j \in found : i <= j>>

RECURSIVE BruteForceOffsets_PastEnd(_, _)
BruteForceOffsets_PastEnd(data, i) ==
    IF i >= 20 THEN <<>>
    ELSE (IF i > 4 THEN <<i>> ELSE <<>>) \o BruteForceOffsets_PastEnd(data, i + 1)

\* the offsets the loop of strategy 7 tries, in order
RECURSIVE BruteForceOffsets(_, _)
BruteForceOffsets(data, i) ==
    IF i >= Min(Len(data), 20) THEN <<>>
    ELSE (IF i > 4 /\ Len(data) > i THEN <<i>> ELSE <<>>)
             \o BruteForceOffsets(data, i + 1)

Attempts_UnboundedFirst(data, uncompressed_size) ==
    <<Attempt(2, 0, NoSize)>>
    \o <<Attempt(1, 0, SomeSize(AsI32(max_size(data, uncompressed_size))))>>
    \o (IF Len(data) > 1 THEN <<Attempt(3, 1, NoSize)>> ELSE <<>>)
    \o (IF Len(data) > 2 THEN <<Attempt(4, 2, NoSize)>> ELSE <<>>)
    \o (IF Len(data) > 4 THEN <<Attempt(5, 4, NoSize)>> ELSE <<>>)
    \o [k \in 1..Len(MagicOffsets(data)) |->
            Attempt(6, MagicOffsets(data)[k], NoSize)]
    \o [k \in 1..Len(BruteForceOffsets(data, 0)) |->
            Attempt(7, BruteForceOffsets(data, 0)[k], NoSize)]

\* every attempt decompress_data makes when none succeeds, in order
Attempts(data, uncompressed_size) ==
    <<Attempt(1, 0, SomeSize(AsI32(max_size(data, uncompressed_size))))>>
    \o <<Attempt(2, 0, NoSize)>>
    \o (IF Len(data) > 1 THEN <<Attempt(3, 1, NoSize)>> ELSE <<>>)
    \o (IF Len(data) > 2 THEN <<Attempt(4, 2, NoSize)>> ELSE <<>>)
    \o (IF Len(data) > 4 THEN <<Attempt(5, 4, NoSize)>> ELSE <<>>)
    \o [k \in 1..Len(MagicOffsets(data)) |->
            Attempt(6, MagicOffsets(data)[k], NoSize)]
    \o [k \in 1..Len(BruteForceOffsets(data, 0)) |->
            Attempt(7, BruteForceOffsets(data, 0)[k], NoSize)]

RunAttempt(data, a) == decompress(From(data, a.offset), a.size)

RECURSIVE Waterfall_GivesUp(_, _, _)
Waterfall_GivesUp(data, todo, tried) ==
    IF todo = <<>> \/ (Head(todo).size.some /\ Head(todo).size.neg)
    THEN [some |-> FALSE, out |-> <<>>, strategy |-> 0, tried |-> tried]
    ELSE LET r == RunAttempt(data, Head(todo))
         IN  IF r.ok
             THEN [some |-> TRUE, out |-> r.out,
                   strategy |-> Head(todo).strategy,
                   tried |-> Append(tried, Head(todo))]
             ELSE Waterfall_GivesUp(data, Tail(todo), Append(tried, Head(todo)))

\* the attempts in order up to the first success:
\* [some, out, strategy, tried]
RECURSIVE Waterfall(_, _, _)
Waterfall(data, todo, tried) ==
    IF todo = <<>>
    THEN [some |-> FALSE, out |-> <<>>, strategy |-> 0, tried |-> tried]
    ELSE LET r == RunAttempt(data, Head(todo))
         IN  IF r.ok
             THEN [some |-> TRUE, out |-> r.out,
                   strategy |-> Head(todo).strategy,
                   tried |-> Append(tried, Head(todo))]
             ELSE Waterfall(data, Tail(todo), Append(tried, Head(todo)))

EmptyCheck_Missing(data) == FALSE

\* `if data.is_empty() { return None; }`
EmptyCheck(data) == data = <<>>


EmptyPayloadResult_Success ==
    [some |-> TRUE, out |-> <<>>, strategy |-> 0, tried |-> <<>>]

\* `return None;` for the empty payload
EmptyPayloadResult ==
    [some |-> FALSE, out |-> <<>>, strategy |-> 0, tried |-> <<>>]

\* Option<(Vec<u8>, usize)>, with the attempts made
decompress_data(data, uncompressed_size) ==
    IF EmptyCheck(data)
    THEN EmptyPayloadResult
    ELSE Waterfall(data, Attempts(data, uncompressed_size), <<>>)

(***************************************************************************)
(* The input document and parse_input (main.rs 43-114).                    *)
(***************************************************************************)
TextBuffer == <<98, 117, 102, 102, 101, 114>>
TextData == <<100, 97, 116, 97>>
TextBufferType == <<66, 117, 102, 102, 101, 114>>

\* Value::get(key): Some(value) for a member of an object
Get(j, key) ==
    IF j.t = "object" /\ key \in DOMAIN j.members
    THEN [some |-> TRUE, val |-> j.members[key]]
    ELSE [some |-> FALSE, val |-> JNull]

\* value[key]: Null when there is no such member
Index(j, key) == Get(j, key).val

\* Value::as_u64 is Some
IsU64(j) == (j.t = "number" /\ j.n >= 0) \/ (j.t = "widenumber" /\ j.bytes[1] < 128)

\* the low eight bits of the u64
LowByte(j) == IF j.t = "number" THEN j.n % 256 ELSE j.bytes[8]

Failure(msg, arg) == [ok |-> FALSE, err |-> [msg |-> msg, arg |-> arg]]

\* extract_byte_array: [ok, bytes] or [ok, err]
extract_byte_array(json_array) ==
    IF json_array.t # "array"
        THEN Failure("Expected data to be an array", 0)
    ELSE IF \E i \in 1..Len(json_array.items) : ~IsU64(json_array.items[i])
        THEN Failure("Expected data element to be a number", 0)
    ELSE [ok |-> TRUE,
          bytes |-> [i \in 1..Len(json_array.items) |-> LowByte(json_array.items[i])]]

\* MessagePackExt
MessagePackExt(ext_type, header_data, data) ==
    [ext_type |-> ext_type, header_data |-> header_data, data |-> data]

\* `ext_type as i8` of the u64 discriminator
ExtTypeOf(j) == ByteToI8(LowByte(j))

SkipStep_Two(current_index) == current_index + 2

\* the step of a scan position that holds no block header
SkipStep(current_index) == current_index + 1

PairStep_One(current_index) == current_index + 1

\* the step after a block was collected
PairStep(current_index) == current_index + 2


\* the while loop of parse_input: [ok, blocks] or [ok, err]
RECURSIVE ParseLoop(_, _, _)
ParseLoop(parsed_array, current_index, result) ==
    IF ~(current_index + 1 < Len(parsed_array))
    THEN IF result = <<>>
         THEN Failure("No valid LZ4 blocks found in input", 0)
         ELSE [ok |-> TRUE, blocks |-> result]
    ELSE LET header == parsed_array[current_index + 1]
             data == parsed_array[current_index + 2]
             ext_type == Get(header, TextType)
             buffer == Get(header, TextBuffer)
             header_data == extract_byte_array(Index(buffer.val, TextData))
             data_array == Get(data, TextData)
             data_bytes == extract_byte_array(data_array.val)
         IN  IF ext_type.some /\ IsU64(ext_type.val)
             THEN IF ~buffer.some
                      THEN Failure("Missing buffer in block at index", current_index)
                  ELSE IF ~header_data.ok THEN header_data
                  ELSE IF ~data_array.some
                      THEN Failure("Missing data in block at index", current_index + 1)
                  ELSE IF ~data_bytes.ok THEN data_bytes
                  ELSE ParseLoop(parsed_array, PairStep(current_index),
                                 Append(result,
                                        MessagePackExt(ExtTypeOf(ext_type.val),
                                                       header_data.bytes,
                                                       data_bytes.bytes)))
             ELSE ParseLoop(parsed_array, SkipStep(current_index), result)

parse_input_NoLengthCheck(parsed) ==
    IF parsed.t # "array" THEN Failure("Expected a JSON array", 0)
    ELSE ParseLoop(parsed.items, 0, <<>>)

\* parse_input on a document that is a JSON array
parse_input(parsed) ==
    IF parsed.t # "array" THEN Failure("Expected a JSON array", 0)
    ELSE IF Len(parsed.items) < 2
        THEN Failure("Input JSON must contain at least 2 elements", 0)
    ELSE ParseLoop(parsed.items, 0, <<>>)

(***************************************************************************)
(* process_input (main.rs 619-773) on a document that is a JSON array or   *)
(* a JSON object.                                                          *)
(***************************************************************************)
RECURSIVE LexLess(_, _)
LexLess(a, b) ==
    IF a = <<>> THEN b # <<>>
    ELSE IF b = <<>> THEN FALSE
    ELSE IF Head(a) # Head(b) THEN Head(a) < Head(b)
    ELSE LexLess(Tail(a), Tail(b))

\* the keys of a serde_json::Map in its iteration order
RECURSIVE SortedKeys(_)
SortedKeys(keys) ==
    IF keys = {} THEN <<>>
    ELSE LET first == CHOOSE k \in keys : \A o \in keys \ {k} : LexLess(k, o)
         IN  <<first>> \o SortedKeys(keys \ {first})

RECURSIVE convert_json_to_msgpack(_)
convert_json_to_msgpack(json) ==
    CASE json.t = "null" -> Nil
      [] json.t = "bool" -> Boolean(json.b)
      [] json.t = "number" -> Integer(json.n)
      [] json.t = "widenumber" ->
            WideInteger(IF json.bytes[1] < 128 THEN 207 ELSE 211, json.bytes)
      [] json.t = "float" -> IF json.w = 64 THEN F64(json.bytes) ELSE F32(json.bytes)
      [] json.t = "string" -> String(json.bytes)
      [] json.t = "array" ->
            Array([i \in 1..Len(json.items) |-> convert_json_to_msgpack(json.items[i])])
      [] json.t = "object" ->
            LET keys == SortedKeys(DOMAIN json.members)
            IN  Map([i \in 1..Len(keys) |->
                        <<String(keys[i]), convert_json_to_msgpack(json.members[keys[i]])>>])

\* analyze_input_format
analyze_input_format(json) ==
    IF json.t = "array" /\ json.items # <<>>
    THEN IF /\ \E i \in 1..Len(json.items) : Get(json.items[i], TextType).some
            /\ \E i \in 1..Len(json.items) : Get(json.items[i], TextBuffer).some
         THEN "lz4_block_array"
         ELSE "json_array"
    ELSE IF json.t = "object" THEN "json_object"
    ELSE "lz4_block_array"

SupportedExtType == 98

\* the block made of a plain JSON document: its MessagePack bytes,
\* not compressed, under a two-byte header
PlainJsonBlock(json) ==
    LET msgpack_data == write_value(convert_json_to_msgpack(json))
    IN  MessagePackExt(SupportedExtType,
                       <<204, Len(msgpack_data) % 256>>,
                       msgpack_data)

process_input(json) ==
    IF analyze_input_format(json) = "lz4_block_array" THEN parse_input(json)
    ELSE [ok |-> TRUE, blocks |-> <<PlainJsonBlock(json)>>]

(***************************************************************************)
(* process (main.rs 798-915).                                              *)
(***************************************************************************)
reserialize_to_msgpack(ext) ==
    write_value(Array(<<Ext(ext.ext_type, ext.header_data), Binary(ext.data)>>))

ErrorMarker(text) == JObject(MapInsert(EmptyMap, TextError, JString(text)))

DecompressFailed_Null == JNull

\* the value of a block whose payload no strategy decompressed
DecompressFailed == ErrorMarker(TextFailedToDecompress)


\* the value of one block: the match on decompress_data
human_readable(ext) ==
    LET uncompressed_size == get_uncompressed_size(ext.header_data)
        d == decompress_data(ext.data, uncompressed_size)
        unwrap_or_else(r) ==
            IF r.ok THEN r.val ELSE ErrorMarker(TextFailedToProcess)
    IN  IF d.some
        THEN unwrap_or_else(process_decompressed_data(d.out))
        ELSE DecompressFailed

IsLZ4BlockArray_Any(ext) == TRUE

\* `if ext.ext_type == 98`
IsLZ4BlockArray(ext) == ext.ext_type = SupportedExtType


PushResult_Front(rs, ext) ==
    <<[msgpack |-> reserialize_to_msgpack(ext), human |-> human_readable(ext)]>> \o rs

\* results.push((msgpack_output, human_readable))
PushResult(rs, ext) ==
    Append(rs, [msgpack |-> reserialize_to_msgpack(ext), human |-> human_readable(ext)])


\* format!("{:02x}", b) over bytes, joined
HexText(bytes) ==
    Flatten([i \in 1..Len(bytes) |->
                <<HexDigit(bytes[i] \div 16), HexDigit(bytes[i] % 16)>>])

\* the keys of the Json report
ReportKey ==
    [block_index |-> <<98, 108, 111, 99, 107, 95, 105, 110, 100, 101, 120>>,
     messagepack_hex |->
        <<109, 101, 115, 115, 97, 103, 101, 112, 97, 99, 107, 95, 104, 101,
         120>>,
     messagepack_length |->
        <<109, 101, 115, 115, 97, 103, 101, 112, 97, 99, 107, 95, 108, 101,
         110, 103, 116, 104>>,
     original_ext_type |->
        <<111, 114, 105, 103, 105, 110, 97, 108, 95, 101, 120, 116, 95, 116,
         121, 112, 101>>,
     original_header_data |->
        <<111, 114, 105, 103, 105, 110, 97, 108, 95, 104, 101, 97, 100, 101,
         114, 95, 100, 97, 116, 97>>,
     original_data_length |->
        <<111, 114, 105, 103, 105, 110, 97, 108, 95, 100, 97, 116, 97, 95,
         108, 101, 110, 103, 116, 104>>,
     human_readable |->
        <<104, 117, 109, 97, 110, 95, 114, 101, 97, 100, 97, 98, 108, 101>>,
     total_blocks |->
        <<116, 111, 116, 97, 108, 95, 98, 108, 111, 99, 107, 115>>,
     blocks |-> <<98, 108, 111, 99, 107, 115>>]

\* one element of result_array of the Json format, for 0-based index i
BlockReport(bs, rs, i) ==
    JObject(
        (ReportKey.block_index :> JNumber(i))
        @@ (ReportKey.messagepack_hex :> JString(HexText(rs[i + 1].msgpack)))
        @@ (ReportKey.messagepack_length :> JNumber(Len(rs[i + 1].msgpack)))
        @@ (ReportKey.original_ext_type :> JNumber(bs[i + 1].ext_type))
        @@ (ReportKey.original_header_data :> JString(HexText(bs[i + 1].header_data)))
        @@ (ReportKey.original_data_length :> JNumber(Len(bs[i + 1].data)))
        @@ (ReportKey.human_readable :> rs[i + 1].human))

\* the document each output format renders, from the blocks and results
Output(format, bs, rs) ==
    CASE format = "Binary" -> [format |-> format]
      [] format = "Hex" ->
            [format |-> format,
             hex |-> [i \in 1..Len(rs) |-> HexText(rs[i].msgpack)]]
      [] format = "Human" ->
            [format |-> format,
             json |-> IF Len(rs) = 1 THEN rs[1].human
                      ELSE JArray([i \in 1..Len(rs) |-> rs[i].human])]
      [] format = "Json" ->
            [format |-> format,
             json |-> IF Len(rs) = 1 THEN BlockReport(bs, rs, 0)
                      ELSE JObject(
                            (ReportKey.total_blocks :> JNumber(Len(rs)))
                            @@ (ReportKey.blocks :>
                                  JArray([i \in 1..Len(rs) |->
                                            BlockReport(bs, rs, i - 1)])))]

NoReturn == [k |-> "none"]
Ok(out) == [k |-> "Ok", out |-> out]
Err(err) == [k |-> "Err", err |-> err]

NoCall == [op |-> "none"]

\* let blocks = Self::process_input(&input_json)?;
ProcessInput ==
    /\ pc = "start"
    /\ LET r == process_input(input_json)
       IN  IF r.ok
           THEN /\ blocks' = r.blocks
                /\ pc' = "loop"
                /\ ret' = ret
           ELSE /\ blocks' = blocks
                /\ pc' = "done"
                /\ ret' = Err(r.err)
    /\ UNCHANGED <<input_json, output_format, idx, results, call>>

\* one iteration of `for (i, ext) in blocks.iter().enumerate()`
ProcessBlock ==
    /\ pc = "loop"
    /\ idx < Len(blocks)
    /\ LET ext == blocks[idx + 1]
       IN  IF IsLZ4BlockArray(ext)
           THEN /\ results' = PushResult(results, ext)
                /\ idx' = idx + 1
                /\ pc' = pc
                /\ ret' = ret
           ELSE /\ results' = results
                /\ idx' = idx
                /\ pc' = "done"
                /\ ret' = Err([msg |-> "Unsupported extension type",
                               arg |-> ext.ext_type])
    /\ UNCHANGED <<input_json, output_format, blocks, call>>

\* the match on output_format after the loop
RenderOutput ==
    /\ pc = "loop"
    /\ idx = Len(blocks)
    /\ ret' = Ok(Output(output_format, blocks, results))
    /\ pc' = "done"
    /\ UNCHANGED <<input_json, output_format, blocks, idx, results, call>>

(***************************************************************************)
(* The encoder of an envelope: create_test_block                           *)
(* (tests/test_multi_blocks.rs 15-49), create_test_data                    *)
(* (tests/test_examples.rs 16-59) and create_output_json (lib.rs 84-118).  *)
(***************************************************************************)
EncodeHeader_OneByte(size) == <<204, size % 256>>

\* byte 204, then the size in the fewest big-endian bytes
EncodeHeader(size) ==
    <<204>> \o (IF size <= 255 THEN ToBE(size, 1)
                ELSE IF size <= 65535 THEN ToBE(size, 2)
                ELSE IF size <= 16777215 THEN ToBE(size, 3)
                ELSE ToBE(size, 4))

BufferJson(bytes) ==
    JObject((TextType :> JString(TextBufferType)) @@ (TextData :> ByteArrayJson(bytes)))

HeaderDescriptor(header_data, ext_type) ==
    JObject((TextBuffer :> BufferJson(header_data)) @@ (TextType :> JNumber(ext_type)))

PayloadDescriptor(data) == BufferJson(data)

create_test_block(value, ext_type) ==
    LET buffer == write_value(value)
    IN  <<HeaderDescriptor(EncodeHeader(Len(buffer)), ext_type),
          PayloadDescriptor(compress(buffer))>>

create_test_data(value) == JArray(create_test_block(value, SupportedExtType))

(***************************************************************************)
(* The inputs the model draws.                                             *)
(***************************************************************************)
OutputFormats == {"Json", "Hex", "Binary", "Human"}

SeqsUpTo(S, n) == UNION {[1..k -> S] : k \in 0..n}

TextA == <<97>>

\* values of the shapes the tests encode, for the documents of many blocks
ArrayValue == Array(<<Integer(1), Integer(2), Integer(3)>>)
MapValue == Map(<< <<String(TextA), Integer(42)>> >>)

\* header and payload as the tests of tests/test_cases.rs write them
RawPair(header_data, data) ==
    <<HeaderDescriptor(header_data, SupportedExtType), PayloadDescriptor(data)>>

\* a block as the encoder writes it, a block as the tests write it, or a
\* stray element that is no header
Units ==
    {create_test_block(ArrayValue, 98), create_test_block(ArrayValue, 99),
     create_test_block(MapValue, 98),
     RawPair(<<204, 0>>, <<>>), RawPair(<<204, 5>>, <<>>),
     RawPair(<<204, 5>>, <<1, 2, 3>>),
     <<JObject(EmptyMap)>>}

Documents == {JArray(Flatten(us)) : us \in SeqsUpTo(Units, MaxUnits)}

\* the elements of the arrays that are encoded: a string, a number, nil
Elems == {String(TextA), Integer(7), Nil}

TestValues ==
    {Array(s) : s \in SeqsUpTo(Elems, MaxElems)}
    \cup {Array(<<String(TextA), String(TextA), Integer(7), String(TextA),
                  String(TextA), Nil, Integer(7)>>),
          Array(<<String(TextType), String(TextA), Integer(400),
                  String(TextDetail), String(<<>>), Nil>>),
          Array(<<Nil, Nil, Nil, Nil, Nil, String(TextA), Integer(7)>>),
          Array(<<Nil, String(TextA), Integer(7), Nil, Nil, Nil, Nil>>),
          Nil, Boolean(TRUE), Integer(5), Integer(0 - 3), Integer(400),
          String(TextA), String(<<255>>), Binary(<<1, 2>>), Ext(5, <<9>>),
          F64(<<64, 9, 33, 251, 84, 68, 45, 24>>),
          WideInteger(207, <<255, 255, 255, 255, 255, 255, 255, 255>>),
          Map(<< <<String(TextA), Integer(1)>> >>),
          Map(<< <<Integer(1), Integer(2)>>, <<String(TextA), Nil>> >>),
          Map(<< <<String(<<255>>), Integer(2)>>, <<Nil, Nil>> >>),
          Array(<<Map(<< <<Integer(1), Integer(2)>>, <<String(TextA), Nil>> >>)>>)}

HeaderBytes == {0, 12, 204, 205, 206, 229}

Headers == UNION {[1..n -> HeaderBytes] : n \in 1..MaxHeaderLen}

PayloadBytes == {0, 1, 16}

Payloads == SeqsUpTo(PayloadBytes, MaxPayloadLen)

\* a block of one literal behind its size, as decompress without a size
\* reads it, and the same block behind the frame magic number
SizedBlock == <<1, 0, 0, 0, 16, 65>>
MagicBlock == <<4, 34, 77, 24, 16, 65>>

UnreadableMagic == <<4, 34, 77, 24, 240>>

\* a block of five literals, which behind its first four bytes read as a
\* size holds the block of one literal
HintedBlock == <<80, 1, 0, 0, 16, 65>>

\* payloads that only a later strategy can read: the sized block behind
\* 0, 1, 2, 4 and 5 stray bytes, the magic number at offsets 3 and 0, and
\* seven bytes that no strategy can read; the magic number at offset 0 and
\* at offset 6 before blocks that cannot be read
FramedPayloads ==
    {SizedBlock,
     <<1>> \o SizedBlock,
     <<1, 1>> \o SizedBlock,
     <<1, 1, 1, 1>> \o SizedBlock,
     <<1, 1, 1, 1, 1>> \o SizedBlock,
     <<1, 1, 1>> \o MagicBlock,
     MagicBlock,
     <<240, 240, 240, 240, 240, 240, 240>>,
     UnreadableMagic,
     HintedBlock,
     <<240, 240, 240, 240, 240, 240>> \o UnreadableMagic \o <<9, 0, 0>>}

\* no hint, small hints, the greatest hint, 2^31 and 214,748,365 (ten
\* times which is 2^31 + 2)
Hints ==
    {WideOf(0), WideOf(1), WideOf(5), Wide(65535, 65535), Wide(32768, 0),
     Wide(3276, 52429)}

(***************************************************************************)
(* process on a document of several blocks.                                *)
(***************************************************************************)
Idle ==
    /\ pc = "start"
    /\ blocks = <<>>
    /\ idx = 0
    /\ results = <<>>
    /\ ret = NoReturn

Init ==
    /\ input_json \in Documents
    /\ output_format \in OutputFormats
    /\ call = NoCall
    /\ Idle

Next == ProcessInput \/ ProcessBlock \/ RenderOutput

Spec == Init /\ [][Next]_vars

(***************************************************************************)
(* process on the single block the encoder makes of one value.             *)
(***************************************************************************)
InitValue ==
    /\ \E v \in TestValues :
          /\ input_json = create_test_data(v)
          /\ call = [op |-> "encode", value |-> v]
    /\ output_format \in OutputFormats
    /\ Idle

SpecValue == InitValue /\ [][Next]_vars

(***************************************************************************)
(* get_uncompressed_size and decompress_data called on their own.          *)
(***************************************************************************)
NoInput ==
    /\ input_json = JArray(<<>>)
    /\ output_format = "Json"
    /\ pc = "done"
    /\ blocks = <<>>
    /\ idx = 0
    /\ results = <<>>
    /\ ret = NoReturn

InitSize ==
    /\ \E h \in Headers :
          call = [op |-> "get_uncompressed_size", header |-> h,
                  done |-> FALSE, size |-> WideOf(0)]
    /\ NoInput

CallGetUncompressedSize ==
    /\ call.op = "get_uncompressed_size"
    /\ ~call.done
    /\ call' = [call EXCEPT !.done = TRUE,
                            !.size = get_uncompressed_size(call.header)]
    /\ UNCHANGED <<input_json, output_format, pc, blocks, idx, results, ret>>

SpecSize == InitSize /\ [][CallGetUncompressedSize]_vars

InitDecompress ==
    /\ \E d \in Payloads \cup FramedPayloads, h \in Hints :
          call = [op |-> "decompress_data", data |-> d, uncompressed_size |-> h,
                  done |-> FALSE,
                  result |-> [some |-> FALSE, out |-> <<>>, strategy |-> 0,
                              tried |-> <<>>]]
    /\ NoInput

CallDecompressData ==
    /\ call.op = "decompress_data"
    /\ ~call.done
    /\ call' = [call EXCEPT !.done = TRUE,
                            !.result = decompress_data(call.data,
                                                       call.uncompressed_size)]
    /\ UNCHANGED <<input_json, output_format, pc, blocks, idx, results, ret>>

SpecDecompress == InitDecompress /\ [][CallDecompressData]_vars

(***************************************************************************)
(* Properties of process on a document of several blocks.                  *)
(***************************************************************************)
\* the positions of the parsed blocks whose tag is not the supported one
Unsupported(bs) == {i \in 1..Len(bs) : bs[i].ext_type # 98}

FirstUnsupported(bs) ==
    CHOOSE i \in Unsupported(bs) : \A j \in Unsupported(bs) : i <= j

UnsupportedError(tag) == Err([msg |-> "Unsupported extension type", arg |-> tag])

\* C1: when some parsed block has a tag other than 98, process returns the
\* error "Unsupported extension type" naming the tag of the first such
\* block; it returns no results, and it has processed the blocks before
\* that one and none from it on.
C1_UnsupportedTagAbortsBatch ==
    Unsupported(blocks) # {} =>
        /\ Len(results) < FirstUnsupported(blocks)
        /\ idx < FirstUnsupported(blocks)
        /\ pc = "done" =>
              /\ ret = UnsupportedError(blocks[FirstUnsupported(blocks)].ext_type)
              /\ Len(results) = FirstUnsupported(blocks) - 1

\* tags 98, 99, 98: the first block was decoded, then the call failed
C1_Witness ==
    /\ pc = "done"
    /\ Len(blocks) = 3
    /\ blocks[1].ext_type = 98
    /\ blocks[2].ext_type = 99
    /\ blocks[3].ext_type = 98
    /\ ret = UnsupportedError(99)
    /\ Len(results) = 1
    /\ results[1].human = JArray(<<JNumber(1), JNumber(2), JNumber(3)>>)

\* a document of header and payload descriptors in pairs
IsPairs(doc) ==
    /\ doc.t = "array"
    /\ doc.items # <<>>
    /\ Len(doc.items) % 2 = 0
    /\ \A k \in 1..(Len(doc.items) \div 2) :
          /\ Get(doc.items[2 * k - 1], TextType).some
          /\ Get(doc.items[2 * k - 1], TextType).val.t = "number"
          /\ Get(doc.items[2 * k - 1], TextBuffer).some
          /\ extract_byte_array(Index(Index(doc.items[2 * k - 1], TextBuffer), TextData)).ok
          /\ extract_byte_array(Index(doc.items[2 * k], TextData)).ok

PairCount(doc) == Len(doc.items) \div 2

PairTag(doc, k) == Get(doc.items[2 * k - 1], TextType).val.n

\* the block the k-th pair of the document describes
PairBlock(doc, k) ==
    MessagePackExt(
        PairTag(doc, k),
        extract_byte_array(Index(Index(doc.items[2 * k - 1], TextBuffer), TextData)).bytes,
        extract_byte_array(Index(doc.items[2 * k], TextData)).bytes)

AllTagged98(doc) == \A k \in 1..PairCount(doc) : PairTag(doc, k) = 98

AllStrategiesFail(ext) ==
    ~decompress_data(ext.data, get_uncompressed_size(ext.header_data)).some

FailedToDecompressMarker == ErrorMarker(TextFailedToDecompress)

\* C3: when every block is tagged 98, process succeeds with one result per
\* block, whether or not a strategy succeeds on it; the result of a block
\* on which every strategy fails is the error marker, and the Human report
\* lists each block's value, the marker among them.
C3_FailedBlockIsMarked ==
    (pc = "done" /\ blocks # <<>> /\ Unsupported(blocks) = {}) =>
        /\ ret.k = "Ok"
        /\ Len(results) = Len(blocks)
        /\ \A i \in 1..Len(blocks) :
              AllStrategiesFail(blocks[i]) =>
                  results[i].human = FailedToDecompressMarker
        /\ (output_format = "Human" /\ Len(blocks) > 1) =>
              \A i \in 1..Len(blocks) : ret.out.json.items[i] = results[i].human

\* a payload that is no LZ4 block, between two blocks that decode
C3_Witness ==
    /\ pc = "done"
    /\ Len(blocks) = 3
    /\ Unsupported(blocks) = {}
    /\ output_format = "Human"
    /\ blocks[2].data = <<1, 2, 3>>
    /\ AllStrategiesFail(blocks[2])
    /\ ret.k = "Ok"
    /\ results[1].human = JArray(<<JNumber(1), JNumber(2), JNumber(3)>>)
    /\ results[2].human = FailedToDecompressMarker
    /\ results[3].human = JObject(TextA :> JNumber(42))

\* the only block of tests/test_cases.rs test_empty_data, and the block of
\* header [204, 5] with no payload
EmptyDataDocument == JArray(RawPair(<<204, 0>>, <<>>))
EmptyPayloadDocument == JArray(RawPair(<<204, 5>>, <<>>))

IsErrorMarker(j) == j.t = "object" /\ TextError \in DOMAIN j.members

C9_EmptyDataIsAnError ==
    (pc = "done" /\ input_json = EmptyDataDocument) => ret.k = "Err"

(***************************************************************************)
(* Properties of process on the block the encoder makes of one value.      *)
(***************************************************************************)
\* the value the input was encoded from, converted to JSON
EncodedValue == convert_value_to_json(call.value)

Encoded == pc = "done" /\ call.op = "encode"

FieldNames == <<TextType, TextTitle, TextStatus, TextDetail, TextInstance>>

\* the positional type check of the i-th of the first five elements
PositionPasses(items, i) ==
    IF i = 3 THEN IsJsonNumber(items[3]) ELSE IsJsonString(items[i])

Passing(items) == {i \in 1..5 : PositionPasses(items, i)}

AtLeastFive(j) == j.t = "array" /\ Len(j.items) >= 5

\* the object of the fields whose checks pass, each bound to its element
ObjectOfPassing(items) ==
    JObject([key \in {FieldNames[i] : i \in Passing(items)} |->
                items[CHOOSE i \in 1..5 : FieldNames[i] = key]])

C5_FullMatchIsPromoted ==
    (Encoded /\ AtLeastFive(EncodedValue) /\ Passing(EncodedValue.items) = 1..5) =>
        /\ Len(results) = 1
        /\ results[1].human.t = "object"
        /\ DOMAIN results[1].human.members =
              {TextType, TextTitle, TextStatus, TextDetail, TextInstance}
        /\ results[1].human.members[TextType] = EncodedValue.items[1]
        /\ results[1].human.members[TextTitle] = EncodedValue.items[2]
        /\ results[1].human.members[TextStatus] = EncodedValue.items[3]
        /\ results[1].human.members[TextDetail] = EncodedValue.items[4]
        /\ results[1].human.members[TextInstance] = EncodedValue.items[5]

C5_Witness ==
    /\ Encoded
    /\ call.value = Array(<<String(TextType), String(TextA), Integer(400),
                            String(TextDetail), String(<<>>), Nil>>)
    /\ results[1].human.members[TextStatus] = JNumber(400)
    /\ results[1].human.members[TextTitle] = JString(TextA)

\* C6 as stated: an array with fewer than five elements, or with a
\* positional check that fails, decodes to the array itself.
C6_PromotionOnlyOnFullMatch ==
    (/\ Encoded
     /\ EncodedValue.t = "array"
     /\ (Len(EncodedValue.items) < 5 \/ Passing(EncodedValue.items) # 1..5)) =>
        /\ Len(results) = 1
        /\ results[1].human = EncodedValue

\* C6, amended: an array with fewer than five elements, or with no
\* positional check that passes, decodes to the array itself; an array of
\* five or more elements with some but not all checks passing decodes to
\* the object of exactly the passing fields.
C6_PromotionOnAnyMatch ==
    (Encoded /\ EncodedValue.t = "array") =>
        /\ Len(results) = 1
        /\ (Len(EncodedValue.items) < 5 \/ Passing(EncodedValue.items) = {}) =>
              results[1].human = EncodedValue
        /\ (/\ Len(EncodedValue.items) >= 5
            /\ Passing(EncodedValue.items) # {}
            /\ Passing(EncodedValue.items) # 1..5) =>
              results[1].human = ObjectOfPassing(EncodedValue.items)

\* six elements, none of the expected type at its position: unmodified
C6_Witness ==
    /\ Encoded
    /\ call.value = Array(<<Nil, Integer(7), String(TextA), Nil, Integer(7),
                            String(TextA)>>)
    /\ results[1].human.t = "array"
    /\ Len(results[1].human.items) = 6

(***************************************************************************)
(* Properties of decompress_data and get_uncompressed_size.                *)
(***************************************************************************)
EmptyPayloadCall ==
    call.op = "decompress_data" /\ call.done /\ call.data = <<>>

\* C7 as stated: on an empty payload decompress_data returns success with
\* an output of length zero, and attempts no strategy.
C7_EmptyPayloadSucceeds ==
    EmptyPayloadCall =>
        /\ call.result.some
        /\ call.result.out = <<>>
        /\ call.result.tried = <<>>

\* C7, amended: on an empty payload decompress_data returns None for every
\* size hint, and attempts no strategy.
C7_EmptyPayloadIsNone ==
    EmptyPayloadCall =>
        /\ ~call.result.some
        /\ call.result.tried = <<>>

C7_Witness ==
    /\ EmptyPayloadCall
    /\ call.uncompressed_size = WideOf(5)
    /\ ~call.result.some

\* C10: for every header of one byte or more get_uncompressed_size returns
\* a usize, reading no byte outside the header.
C10_SizeHintIsTotal ==
    (call.op = "get_uncompressed_size" /\ call.done /\ call.header # <<>>) =>
        IsUsize(call.size)

\* a header of the uint16 marker alone, which is too short for its rule
C10_Witness ==
    /\ call.op = "get_uncompressed_size"
    /\ call.done
    /\ call.header = <<205, 12>>
    /\ call.size = WideOf(8)

(***************************************************************************)
(* parse_input called on its own, and its properties.                      *)
(***************************************************************************)
\* elements of a descriptor sequence: a header, a payload, an empty object,
\* a header without buffer, a header whose buffer has no data, a number,
\* an object whose type is no unsigned number, and headers of the types 200
\* and 354, which is 98 + 256
ParseElements ==
    {HeaderDescriptor(<<204, 5>>, SupportedExtType),
     HeaderDescriptor(<<204, 5>>, 200),
     HeaderDescriptor(<<204, 5>>, 354),
     PayloadDescriptor(<<1, 2, 3>>),
     JObject(EmptyMap),
     JObject(TextType :> JNumber(SupportedExtType)),
     JObject((TextBuffer :> JObject(EmptyMap)) @@ (TextType :> JNumber(SupportedExtType))),
     JNumber(7),
     JObject(TextType :> JNumber(0 - 1))}

InitParse ==
    /\ \E d \in SeqsUpTo(ParseElements, MaxDescriptors) :
          call = [op |-> "parse_input", parsed |-> JArray(d), done |-> FALSE,
                  result |-> Failure("", 0)]
    /\ NoInput

CallParseInput ==
    /\ call.op = "parse_input"
    /\ ~call.done
    /\ call' = [call EXCEPT !.done = TRUE, !.result = parse_input(call.parsed)]
    /\ UNCHANGED <<input_json, output_format, pc, blocks, idx, results, ret>>

SpecParse == InitParse /\ [][CallParseInput]_vars

ParseCall == call.op = "parse_input" /\ call.done

\* the element has a type that is an unsigned number
HasBlockType(d) == Get(d, TextType).some /\ IsU64(Get(d, TextType).val)

\* elements i and i + 1 are a header with its bytes and a payload with its
\* bytes
ValidPairAt(items, i) ==
    /\ i + 1 <= Len(items)
    /\ HasBlockType(items[i])
    /\ Get(items[i], TextBuffer).some
    /\ extract_byte_array(Index(Index(items[i], TextBuffer), TextData)).ok
    /\ Get(items[i + 1], TextData).some
    /\ extract_byte_array(Index(items[i + 1], TextData)).ok

\* C11: parse_input returns an error and no blocks on a sequence of fewer
\* than two descriptors ("Input JSON must contain at least 2 elements") and
\* on a sequence that holds no valid header/payload pair; when no element
\* at all is a header the error is "No valid LZ4 blocks found in input".
C11_NoPairIsAnError ==
    ParseCall =>
        LET items == call.parsed.items
        IN  /\ Len(items) < 2 =>
                  call.result =
                      Failure("Input JSON must contain at least 2 elements", 0)
            /\ (\A i \in 1..Len(items) : ~ValidPairAt(items, i)) =>
                  ~call.result.ok
            /\ (Len(items) >= 2 /\ \A i \in 1..Len(items) : ~HasBlockType(items[i])) =>
                  call.result = Failure("No valid LZ4 blocks found in input", 0)

\* three elements of which none is a header: the scan reaches the end
C11_Witness ==
    /\ ParseCall
    /\ Len(call.parsed.items) = 3
    /\ \A i \in 1..3 : ~HasBlockType(call.parsed.items[i])
    /\ call.result.err.msg = "No valid LZ4 blocks found in input"

(***************************************************************************)
(* parse_partial_messagepack run one loop iteration at a time, and its     *)
(* properties.                                                             *)
(***************************************************************************)
\* a small integer, an array of one element, the marker that is never
\* used, a string of two bytes, an integer with one byte of payload
PartialBytes == {1, 145, 193, 162, 204}

\* inputs long enough to hold more values than the limit: small integers
\* alone, and small integers behind a byte that is no value
LongInputs ==
    {[i \in 1..n |-> 1] : n \in {PartialLimit, PartialLimit + 5}}
    \cup {[i \in 1..(2 * PartialLimit + 10) |-> IF i % 2 = 1 THEN 193 ELSE 1]}

InitPartial ==
    /\ \E d \in SeqsUpTo(PartialBytes, MaxPartialLen) \cup LongInputs :
          call = [op |-> "parse_partial_messagepack", data |-> d, offset |-> 0,
                  result |-> <<>>, steps |-> 0, done |-> FALSE]
    /\ NoInput

\* one iteration of the while loop, with the break at the limit
PartialStep ==
    /\ call.op = "parse_partial_messagepack"
    /\ ~call.done
    /\ call.offset < Len(call.data)
    /\ LET it == PartialIteration(call.data, call.offset, call.result)
       IN  call' = [call EXCEPT !.offset = it.offset,
                                !.result = it.result,
                                !.steps = @ + 1,
                                !.done = Len(it.result) >= PartialLimit]
    /\ UNCHANGED <<input_json, output_format, pc, blocks, idx, results, ret>>

\* the loop condition fails: the result is returned
PartialReturn ==
    /\ call.op = "parse_partial_messagepack"
    /\ ~call.done
    /\ ~(call.offset < Len(call.data))
    /\ call' = [call EXCEPT !.done = TRUE]
    /\ UNCHANGED <<input_json, output_format, pc, blocks, idx, results, ret>>

NextPartial == PartialStep \/ PartialReturn

SpecPartial == InitPartial /\ [][NextPartial]_vars

\* C12: parse_partial_messagepack makes at most one loop iteration per
\* input byte (so at most input length + 1 tests of the loop condition),
\* every iteration moves the offset forward, the offset never passes the
\* end of the input (so the loop cannot run forever), at most 100 values
\* are collected, and the value returned is that of the loop run to its end.
C12_PartialParserIsBounded ==
    /\ [](call.op = "parse_partial_messagepack" =>
            /\ call.steps <= Len(call.data)
            /\ call.steps <= call.offset
            /\ call.offset <= Len(call.data)
            /\ Len(call.result) <= 100
            /\ Len(call.result) <= call.steps
            /\ (call.done => call.result = parse_partial_messagepack(call.data)))
    /\ [][PartialStep => call.offset' > call.offset]_vars

\* 105 values behind as many bytes that are no value: the loop stops at the
\* limit, after 200 iterations, before the end of the input
C12_Witness ==
    /\ call.op = "parse_partial_messagepack"
    /\ call.done
    /\ Len(call.data) = 210
    /\ call.steps = 200
    /\ call.offset = 200
    /\ Len(call.result) = 100

(***************************************************************************)
(* summarize_binary_data called on its own, and its properties.            *)
(***************************************************************************)
\* a zero, a tab, a control byte, a letter, the byte DEL and a high byte
ProfileBytes == {0, 9, 1, 65, 127, 200}

\* more distinct bytes than the list of the most common holds, and more
\* bytes than the dump of the first ones
ManyBytes == {[i \in 1..n |-> 190 + (i % 12)] : n \in {12, 40}}

InitProfile ==
    /\ \E d \in SeqsUpTo(ProfileBytes, MaxProfileLen) \cup ManyBytes :
          call = [op |-> "summarize_binary_data", data |-> d, done |-> FALSE,
                  result |-> JNull]
    /\ NoInput

CallSummarizeBinaryData ==
    /\ call.op = "summarize_binary_data"
    /\ ~call.done
    /\ call' = [call EXCEPT !.done = TRUE,
                            !.result = summarize_binary_data(call.data)]
    /\ UNCHANGED <<input_json, output_format, pc, blocks, idx, results, ret>>

SpecProfile == InitProfile /\ [][CallSummarizeBinaryData]_vars

ProfileCall == call.op = "summarize_binary_data" /\ call.done

\* C14: the summary of the empty input has all five counts at zero and an
\* empty list of most common bytes, and none of its members is the outcome
\* of a division by zero (a percentage that is not a number).
C14_EmptyInputWithoutDivisionByZero ==
    (ProfileCall /\ call.data = <<>>) =>
        LET m == call.result.members
        IN  /\ m[ProfileText.total_bytes] = JNumber(0)
            /\ m[ProfileText.zero_bytes] = JNumber(0)
            /\ m[ProfileText.ascii_text_bytes] = JNumber(0)
            /\ m[ProfileText.control_bytes] = JNumber(0)
            /\ m[ProfileText.high_bytes] = JNumber(0)
            /\ m[ProfileText.most_common_bytes] = JArray(<<>>)
            /\ m[ProfileText.zero_percentage].bytes # ProfileText.nan \o <<37>>
            /\ m[ProfileText.text_percentage].bytes # ProfileText.nan \o <<37>>

(***************************************************************************)
(* The decision table of get_uncompressed_size, rule by rule.              *)
(***************************************************************************)
SizeCall == call.op = "get_uncompressed_size" /\ call.done

\* header[i] of the call, counted from 0 as in the source
HeaderByte(i) == call.header[i + 1]

HeaderLen == Len(call.header)

\* C15: a header of 3 bytes or more that starts with 205 gives the
\* big-endian value of its bytes 1..2, and a header of 5 bytes or more that
\* starts with 206 gives the big-endian value of its bytes 1..4, whatever
\* the bytes behind are.
C15_MarkerRulesComeFirst ==
    SizeCall =>
        /\ (HeaderLen >= 3 /\ HeaderByte(0) = 205) =>
              call.size = Wide(0, HeaderByte(1) * 256 + HeaderByte(2))
        /\ (HeaderLen >= 5 /\ HeaderByte(0) = 206) =>
              call.size = Wide(HeaderByte(1) * 256 + HeaderByte(2),
                               HeaderByte(3) * 256 + HeaderByte(4))

\* a uint32 header of exactly five bytes whose value is not the fallback's,
\* and a uint16 header whose bytes behind the marker are those of the
\* known sample
C15_Witness ==
    /\ SizeCall
    /\ \/ /\ call.header = <<206, 0, 12, 229, 205>>
          /\ call.size = Wide(12, 229 * 256 + 205)
       \/ /\ call.header = <<205, 12, 229, 205>>
          /\ call.size = Wide(0, 12 * 256 + 229)

\* the first four bytes are those of the known sample
MatchesKnownSample ==
    /\ HeaderLen >= 4
    /\ HeaderByte(0) = 204
    /\ HeaderByte(1) = 12
    /\ HeaderByte(2) = 229
    /\ HeaderByte(3) = 205

\* C16: a header that starts with 204, 12, 229, 205 gives 3941, not the
\* big-endian value of its bytes; and among the headers drawn, none of
\* whose other rules can give 3941, no other header gives 3941.
C16_KnownSample ==
    SizeCall =>
        /\ MatchesKnownSample => call.size = WideOf(3941)
        /\ ~MatchesKnownSample => call.size # WideOf(3941)

\* the four bytes of the sample, whose big-endian value is another
C16_Witness ==
    /\ SizeCall
    /\ call.header = <<204, 12, 229, 205>>
    /\ call.size = WideOf(3941)
    /\ call.size # Wide(12, 229 * 256 + 205)

\* C17: a header that starts with 204 and is not the known sample gives,
\* at lengths 2, 3, 4 and 5, the big-endian value of its other 1, 2, 3 and
\* 4 bytes; at a greater length, with 205 as second byte the big-endian
\* value of bytes 2..3 and with 206 as second byte that of bytes 2..5.
C17_LeadingByteRule ==
    (SizeCall /\ HeaderByte(0) = 204 /\ ~MatchesKnownSample) =>
        /\ HeaderLen = 2 => call.size = Wide(0, HeaderByte(1))
        /\ HeaderLen = 3 =>
              call.size = Wide(0, HeaderByte(1) * 256 + HeaderByte(2))
        /\ HeaderLen = 4 =>
              call.size = Wide(HeaderByte(1), HeaderByte(2) * 256 + HeaderByte(3))
        /\ HeaderLen = 5 =>
              call.size = Wide(HeaderByte(1) * 256 + HeaderByte(2),
                               HeaderByte(3) * 256 + HeaderByte(4))
        /\ (HeaderLen >= 6 /\ HeaderByte(1) = 205) =>
              call.size = Wide(0, HeaderByte(2) * 256 + HeaderByte(3))
        /\ (HeaderLen >= 6 /\ HeaderByte(1) = 206) =>
              call.size = Wide(HeaderByte(2) * 256 + HeaderByte(3),
                               HeaderByte(4) * 256 + HeaderByte(5))

\* a header of two bytes, and one of six bytes with a uint32 marker second
C17_Witness ==
    /\ SizeCall
    /\ \/ call.header = <<204, 12>> /\ call.size = WideOf(12)
       \/ /\ call.header = <<204, 206, 0, 12, 229, 205>>
          /\ call.size = Wide(12, 229 * 256 + 205)

\* the little-endian values of the bytes behind the first
LE16 == HeaderByte(1) + HeaderByte(2) * 256
LE32 == Wide(HeaderByte(3) + HeaderByte(4) * 256, HeaderByte(1) + HeaderByte(2) * 256)

LE16Accepted == HeaderLen >= 3 /\ 0 < LE16 /\ LE16 < 100000
\* 1,000,000 is 15 * 65536 + 16960
LE32Accepted ==
    /\ HeaderLen >= 5
    /\ LE32 # Wide(0, 0)
    /\ (LE32.hi < 15 \/ (LE32.hi = 15 /\ LE32.lo < 16960))

\* rules 1 to 4 of the decision table
Rule1Applies == HeaderLen >= 3 /\ HeaderByte(0) = 205
Rule2Applies == HeaderLen >= 5 /\ HeaderByte(0) = 206
Rule4Applies ==
    /\ HeaderByte(0) = 204
    /\ \/ HeaderLen \in 2..5
       \/ HeaderLen >= 6 /\ HeaderByte(1) \in {205, 206}

\* the headers on which the source tries the little-endian values
BehindLeadingByte ==
    /\ HeaderByte(0) = 204
    /\ HeaderLen >= 6
    /\ ~MatchesKnownSample
    /\ HeaderByte(1) \notin {205, 206}

\* C18 as stated: every header of two bytes or more that rules 1 to 4 leave
\* over, whatever its first byte, gives its little-endian 2-byte value when
\* that is accepted, and else its little-endian 4-byte value when that is.
C18_LittleEndianForEveryHeader ==
    (SizeCall /\ HeaderLen >= 2
        /\ ~Rule1Applies /\ ~Rule2Applies /\ ~MatchesKnownSample /\ ~Rule4Applies) =>
        /\ LE16Accepted => call.size = Wide(0, LE16)
        /\ (~LE16Accepted /\ LE32Accepted) => call.size = LE32

\* C18, amended: the little-endian values are tried only for a header that
\* starts with 204, has 6 bytes or more, is not the known sample and has
\* neither 205 nor 206 as second byte: it gives its 2-byte value when that
\* is not 0, else its 4-byte value n when 0 < n < 1,000,000, else its
\* length times 4.  A header of two bytes or more that starts with
\* another byte and that rules 1 and 2 leave over gives its length times 4,
\* whatever its little-endian values are.
C18_LittleEndianBehindLeadingByte ==
    SizeCall =>
        /\ BehindLeadingByte =>
              /\ LE16 # 0 => call.size = Wide(0, LE16)
              /\ (LE16 = 0 /\ LE32Accepted) => call.size = LE32
              /\ (LE16 = 0 /\ ~LE32Accepted) => call.size = WideOf(HeaderLen * 4)
        /\ (HeaderLen >= 2 /\ HeaderByte(0) # 204
                /\ ~Rule1Applies /\ ~Rule2Applies) =>
              call.size = WideOf(HeaderLen * 4)

\* a 4-byte value accepted behind a 2-byte value of 0, and a header
\* starting with 0 whose 2-byte value of 12 is passed over
C18_Witness ==
    /\ SizeCall
    /\ \/ call.header = <<204, 0, 0, 12, 0, 0>> /\ call.size = Wide(12, 0)
       \/ call.header = <<0, 12, 0, 0>> /\ call.size = WideOf(16)

\* rule 5 as the source has it
Rule5Applies == BehindLeadingByte /\ (LE16 # 0 \/ LE32Accepted)

NoRuleApplies ==
    /\ ~Rule1Applies
    /\ ~Rule2Applies
    /\ ~MatchesKnownSample
    /\ ~Rule4Applies
    /\ ~Rule5Applies

\* C19 as stated: every header of one byte or more that no rule applies to
\* gives its length times 4.
C19_FallbackForEveryNonEmptyHeader ==
    (SizeCall /\ HeaderLen >= 1 /\ NoRuleApplies) =>
        call.size = WideOf(HeaderLen * 4)

\* C19, amended: every header of two bytes or more that no rule applies to
\* gives its length times 4; a header of one byte gives 0.
C19_FallbackFromTwoBytes ==
    SizeCall =>
        /\ (HeaderLen >= 2 /\ NoRuleApplies) => call.size = WideOf(HeaderLen * 4)
        /\ HeaderLen = 1 => call.size = WideOf(0)

\* a header of one byte, a short uint16 header, and a header behind the
\* leading byte whose little-endian values are both refused
C19_Witness ==
    /\ SizeCall
    /\ \/ call.header = <<12>> /\ call.size = WideOf(0)
       \/ call.header = <<205, 12>> /\ call.size = WideOf(8)
       \/ call.header = <<204, 0, 0, 0, 204, 12>> /\ call.size = WideOf(24)

(***************************************************************************)
(* The order of the strategies of decompress_data.                         *)
(***************************************************************************)
DecompressCall == call.op = "decompress_data" /\ call.done

\* the attempts of the call that belong to strategy n
TriedBy(n) ==
    {i \in 1..Len(call.result.tried) : call.result.tried[i].strategy = n}

\* C20: on a payload that is not empty the attempts are made in the order
\* of the strategies, 1 bounded and 2 unbounded at offset 0, 3 to 5 at
\* offsets 1, 2 and 4, 6 at a magic number, 7 at offsets from 5 on; every
\* attempt but the last has failed; on success the last attempt is the
\* one that succeeded, and its output and the number of its strategy are
\* returned; None is returned only when the last attempt has failed too
\* and every strategy the payload is long enough for has been attempted.
C20_FirstSuccessWins ==
    (DecompressCall /\ call.data # <<>>) =>
        LET t == call.result.tried
            n == Len(t)
        IN  /\ n >= 1
            /\ t[1].strategy = 1 /\ t[1].offset = 0 /\ t[1].size # NoSize
            /\ \A i \in 1..n : \A j \in 1..n :
                  i < j => t[i].strategy <= t[j].strategy
            /\ \A i \in 2..n :
                  /\ t[i].strategy \in 2..7
                  /\ t[i].size = NoSize
                  /\ t[i].strategy = 2 => t[i].offset = 0
                  /\ t[i].strategy = 3 => t[i].offset = 1
                  /\ t[i].strategy = 4 => t[i].offset = 2
                  /\ t[i].strategy = 5 => t[i].offset = 4
                  /\ t[i].strategy = 6 =>
                        t[i].offset + 4 <= Len(call.data)
                        /\ SubSeq(call.data, t[i].offset + 1, t[i].offset + 4)
                              = <<4, 34, 77, 24>>
                  /\ t[i].strategy = 7 =>
                        t[i].offset > 4 /\ t[i].offset < Len(call.data)
            /\ \A i \in 1..(n - 1) :
                  ~decompress(From(call.data, t[i].offset), t[i].size).ok
            /\ call.result.some =>
                  /\ decompress(From(call.data, t[n].offset), t[n].size).ok
                  /\ call.result.out =
                        decompress(From(call.data, t[n].offset), t[n].size).out
                  /\ call.result.strategy = t[n].strategy
            /\ ~call.result.some =>
                  /\ ~decompress(From(call.data, t[n].offset), t[n].size).ok
                  /\ TriedBy(2) # {}
                  /\ Len(call.data) > 1 => TriedBy(3) # {}
                  /\ Len(call.data) > 2 => TriedBy(4) # {}
                  /\ Len(call.data) > 4 => TriedBy(5) # {}
                  /\ \A o \in 5..(Len(call.data) - 1) :
                        o < 20 => \E i \in TriedBy(7) : t[i].offset = o

\* the block behind five stray bytes: strategies 1 to 5 fail and the first
\* offset of the brute force succeeds
C20_Witness ==
    /\ DecompressCall
    /\ call.data = <<1, 1, 1, 1, 1>> \o SizedBlock
    /\ call.result.some
    /\ call.result.strategy = 7
    /\ call.result.out = <<65>>
    /\ Len(call.result.tried) = 6

(***************************************************************************)
(* process on documents whose header, payload or decompressed bytes are    *)
(* malformed.                                                              *)
(***************************************************************************)
\* no header, a leading byte or a marker alone, markers without their
\* bytes, a truncated known sample, no marker at all, the greatest size
MalformedHeaders ==
    {<<>>, <<204>>, <<205>>, <<205, 12>>, <<206, 0, 0, 229>>, <<204, 12, 229>>,
     <<204, 206, 0>>, <<0, 0>>, <<204, 5>>, <<204, 255, 255, 255, 255>>}

\* blocks whose bytes are no value: the marker that is never used, alone
\* and before a value, and a two-byte character whose bytes are a string and
\* a map cut short
UndecodablePayloads ==
    {compress(<<193>>), compress(<<193, 1>>), compress(<<217, 129>>)}

MalformedDocuments ==
    {JArray(RawPair(h, p)) :
        h \in MalformedHeaders,
        p \in Payloads \cup FramedPayloads \cup UndecodablePayloads}

InitMalformed ==
    /\ input_json \in Documents \cup MalformedDocuments
    /\ output_format \in OutputFormats
    /\ call = NoCall
    /\ Idle

SpecMalformed == InitMalformed /\ [][Next]_vars

IsBytes(s) == \A i \in 1..Len(s) : s[i] \in Byte

\* a well-formed serde_json::Value
RECURSIVE IsJson(_)
IsJson(j) ==
    CASE j.t = "null" -> TRUE
      [] j.t = "bool" -> j.b \in BOOLEAN
      [] j.t = "number" -> j.n \in Int
      [] j.t \in {"widenumber", "float", "string"} -> IsBytes(j.bytes)
      [] j.t = "array" -> \A i \in 1..Len(j.items) : IsJson(j.items[i])
      [] j.t = "object" ->
            \A k \in DOMAIN j.members : IsBytes(k) /\ IsJson(j.members[k])
      [] OTHER -> FALSE

TenTimes(w) == Wide(w.hi * 10 + (w.lo * 10) \div 65536, (w.lo * 10) % 65536)

\* C21: the size handed to the decompressor by strategy 1 is ten times the
\* hint when the hint is not 0 and ten times the length of the payload when
\* it is, as a size that is not negative.
C21_BoundIsTenTimesHint ==
    (DecompressCall /\ call.data # <<>>) =>
        LET first == call.result.tried[1]
            bound == IF call.uncompressed_size # Wide(0, 0)
                     THEN TenTimes(call.uncompressed_size)
                     ELSE TenTimes(Wide(0, Len(call.data)))
        IN  /\ first.strategy = 1
            /\ first.size.some
            /\ ~first.size.neg
            /\ first.size.w = bound

(***************************************************************************)
(* The offsets of strategies 6 and 7.                                      *)
(***************************************************************************)
\* the offsets at which the attempts before attempt i have called decompress
\* without a size
UnboundedBefore(i) ==
    {call.result.tried[j].offset : j \in {k \in 1..(i - 1) :
                                     call.result.tried[k].size = NoSize}}

\* C22: strategy 7 attempts only offsets from 5 to 20 below the length of
\* the payload at which no earlier strategy has called the unbounded
\* decompression, and no two unbounded attempts of one call are at the same
\* offset.
C22_NoOffsetTwice ==
    (DecompressCall /\ call.data # <<>>) =>
        \A i \in 1..Len(call.result.tried) :
            LET a == call.result.tried[i]
            IN  /\ a.strategy = 7 =>
                       a.offset \in 5..20 /\ a.offset < Len(call.data)
                /\ a.size = NoSize => a.offset \notin UnboundedBefore(i)

(***************************************************************************)
(* The scan of parse_input.                                                *)
(***************************************************************************)
\* the positions of a descriptor sequence at which a scan from position i
\* stops: one position further after an element that is no header, two
\* after a valid pair, and no further than a header without its pair
RECURSIVE ScanPositions(_, _)
ScanPositions(items, i) ==
    IF i + 1 > Len(items) THEN <<>>
    ELSE IF ~HasBlockType(items[i]) THEN <<i>> \o ScanPositions(items, i + 1)
    ELSE IF ValidPairAt(items, i) THEN <<i>> \o ScanPositions(items, i + 2)
    ELSE <<i>>

\* the bytes of the header at position i and of the payload behind it
HeaderBytesAt(items, i) ==
    extract_byte_array(Index(Index(items[i], TextBuffer), TextData)).bytes
PayloadBytesAt(items, i) ==
    extract_byte_array(Index(items[i + 1], TextData)).bytes

PairingErrors ==
    {"Missing buffer in block at index", "Missing data in block at index",
     "Expected data to be an array", "Expected data element to be a number"}

\* C23 as stated: a pairing mismatch never aborts parse_input, which fails
\* only on fewer than two descriptors and when no valid block was found.
C23_EveryMismatchIsASkip ==
    (ParseCall /\ ~call.result.ok) =>
        call.result.err.msg \in
            {"Input JSON must contain at least 2 elements",
             "No valid LZ4 blocks found in input"}

\* C23, amended: on two descriptors or more an element without a format tag
\* moves the scan one position further and a valid pair two; a header
\* whose own bytes or whose payload bytes are missing aborts the scan with
\* an error also behind valid pairs; without such a header the blocks of
\* the valid pairs the scan stops at are returned in order, and the error
\* is that of no valid block when there are none.
C23_OnlyMissingTagIsASkip ==
    (ParseCall /\ Len(call.parsed.items) >= 2) =>
        LET items == call.parsed.items
            pos == ScanPositions(items, 1)
            IsPair(i) == ValidPairAt(items, i)
            IsFault(i) == HasBlockType(items[i]) /\ ~ValidPairAt(items, i)
            pairs == SelectSeq(pos, IsPair)
            faults == SelectSeq(pos, IsFault)
        IN  /\ faults # <<>> =>
                  /\ ~call.result.ok
                  /\ call.result.err.msg \in PairingErrors
                  /\ ~Get(items[faults[1]], TextBuffer).some =>
                        call.result =
                            Failure("Missing buffer in block at index", faults[1] - 1)
            /\ (faults = <<>> /\ pairs = <<>>) =>
                  call.result = Failure("No valid LZ4 blocks found in input", 0)
            /\ (faults = <<>> /\ pairs # <<>>) =>
                  /\ call.result.ok
                  /\ Len(call.result.blocks) = Len(pairs)
                  /\ \A k \in 1..Len(pairs) :
                        /\ call.result.blocks[k].header_data =
                               HeaderBytesAt(items, pairs[k])
                        /\ call.result.blocks[k].data =
                               PayloadBytesAt(items, pairs[k])

\* a valid pair, then a header without buffer: the scan aborts
C23_Witness ==
    /\ ParseCall
    /\ Len(call.parsed.items) = 4
    /\ ValidPairAt(call.parsed.items, 1)
    /\ HasBlockType(call.parsed.items[3])
    /\ ~Get(call.parsed.items[3], TextBuffer).some
    /\ call.result = Failure("Missing buffer in block at index", 2)

(***************************************************************************)
(* process_decompressed_data called on its own, and the order of its       *)
(* fallbacks.                                                              *)
(***************************************************************************)
\* a small integer, a map header of one entry, the marker that is never
\* used, the marker of a string with one byte of length (with 129 behind it
\* the text U+0641), and the integer -1, which no text holds
RecoverBytes == {65, 129, 193, 217, 255}

InitRecover ==
    /\ \E d \in SeqsUpTo(RecoverBytes, MaxRecoverLen) :
          call = [op |-> "process_decompressed_data", decompressed |-> d,
                  done |-> FALSE, result |-> [ok |-> FALSE, val |-> JNull]]
    /\ NoInput

CallProcessDecompressedData ==
    /\ call.op = "process_decompressed_data"
    /\ ~call.done
    /\ call' = [call EXCEPT
                    !.done = TRUE,
                    !.result = process_decompressed_data(call.decompressed)]
    /\ UNCHANGED <<input_json, output_format, pc, blocks, idx, results, ret>>

SpecRecover == InitRecover /\ [][CallProcessDecompressedData]_vars

\* a finished call on bytes that are not empty and do not start with a
\* whole value
RecoverCall ==
    /\ call.op = "process_decompressed_data"
    /\ call.done
    /\ call.decompressed # <<>>
    /\ ~read_value(call.decompressed).ok

\* the bytes are valid text with a character that is no control character
ReadableText(s) == Utf8Valid(s) /\ AnyNonControlFrom(s, 0)

\* the value is the object that holds the text under raw_string
IsRawString(val, s) ==
    /\ val.t = "object"
    /\ DOMAIN val.members = {TextRawString}
    /\ val.members[TextRawString] = JString(s)

\* the value is an object of the profiler
IsSummary(val) ==
    /\ val.t = "object"
    /\ ProfileText.total_bytes \in DOMAIN val.members

\* C24: when the bytes do not decode as a whole the function returns a
\* value and no error: the array of the values of partial recovery when
\* there is one; else, for readable text, the text under raw_string, or the
\* document it holds when it starts with '{' or '[' and is JSON; else the
\* summary of the profiler.
C24_FallbackOrder ==
    RecoverCall =>
        LET s == call.decompressed
            val == call.result.val
            partial_values == parse_partial_messagepack(s)
        IN  /\ call.result.ok
            /\ partial_values # <<>> => val = JArray(partial_values)
            /\ (partial_values = <<>> /\ ReadableText(s)) =>
                  \/ IsRawString(val, s)
                  \/ LooksLikeJson(s) /\ val = serde_json_from_str(s).val
            /\ (partial_values = <<>> /\ ~ReadableText(s)) =>
                  val = summarize_binary_data(s)
            /\ IsRawString(val, s) => partial_values = <<>>
            /\ IsSummary(val) => partial_values = <<>> /\ ~ReadableText(s)

\* text that holds the value 65 behind a string marker: partial recovery
\* wins over the text
C24_Witness ==
    /\ RecoverCall
    /\ call.decompressed = <<217, 129, 65>>
    /\ ReadableText(call.decompressed)
    /\ call.result = [ok |-> TRUE, val |-> JArray(<<JNumber(65)>>)]

(***************************************************************************)
(* The label and the counts of summarize_binary_data.                      *)
(***************************************************************************)
\* the number of bytes of the data that are in the set
HowMany(data, set) == Cardinality({i \in DOMAIN data : data[i] \in set})

Printable == (32..126) \cup {9, 10, 13}

\* the label for the fractions printable / total > 3/4, zero / total >
\* zeroNum / zeroDen and high / total > 1/2, in this precedence
LabelFor(data, zeroNum, zeroDen) ==
    IF 4 * HowMany(data, Printable) > 3 * Len(data)
        THEN ProfileText.mostly_ascii
    ELSE IF zeroDen * HowMany(data, {0}) > zeroNum * Len(data)
        THEN ProfileText.many_zero
    ELSE IF 2 * HowMany(data, 128..255) > Len(data)
        THEN ProfileText.many_high
    ELSE ProfileText.general_binary

Label == call.result.members[ProfileText.appears_to_be].bytes

\* C25 as stated: the label follows the thresholds 75% for printable bytes,
\* 33% for zero bytes and 50% for high bytes, in this precedence.
C25_ThresholdsInPercent ==
    (ProfileCall /\ call.data # <<>>) => Label = LabelFor(call.data, 33, 100)

\* C25, amended: the label follows the thresholds three quarters for
\* printable bytes, one third for zero bytes and one half for high bytes,
\* in this precedence, on every input that is not empty.
C25_ThresholdsInFractions ==
    (ProfileCall /\ call.data # <<>>) => Label = LabelFor(call.data, 1, 3)

\* one zero byte among three: more than 33% and not more than a third
C25_Witness ==
    /\ ProfileCall
    /\ Len(call.data) = 3
    /\ HowMany(call.data, {0}) = 1
    /\ HowMany(call.data, 128..255) = 1
    /\ Label = ProfileText.general_binary

\* the count the summary reports under a key
Reported(key) == call.result.members[key].n

\* C30: the counts of printable, control and high bytes of the summary add
\* up to total_bytes, and the count of zero bytes is at most the count of
\* control bytes.
C30_ClassesPartition ==
    ProfileCall =>
        /\ Reported(ProfileText.ascii_text_bytes)
               + Reported(ProfileText.control_bytes)
               + Reported(ProfileText.high_bytes)
           = Reported(ProfileText.total_bytes)
        /\ Reported(ProfileText.zero_bytes) <= Reported(ProfileText.control_bytes)

(***************************************************************************)
(* convert_value_to_json called on maps.                                   *)
(***************************************************************************)
\* keys: two strings, a string that is no valid text, an integer, nil, and
\* bytes
ConvertKeys ==
    {String(TextA), String(TextType), String(<<255>>), Integer(1), Nil,
     Binary(TextA)}

\* a map inside a map, with a key that is kept and a key that is dropped,
\* and the same map inside an array
InnerMap == Map(<< <<Integer(1), Integer(2)>>, <<String(TextA), Nil>> >>)

ConvertValues == {Integer(1), Integer(2), InnerMap, Array(<<InnerMap>>)}

ConvertMaps ==
    {Map(pairs) : pairs \in SeqsUpTo(ConvertKeys \X ConvertValues, MaxPairs)}

InitConvert ==
    /\ \E v \in ConvertMaps :
          call = [op |-> "convert_value_to_json", value |-> v, done |-> FALSE,
                  result |-> JNull]
    /\ NoInput

CallConvertValueToJson ==
    /\ call.op = "convert_value_to_json"
    /\ ~call.done
    /\ call' = [call EXCEPT !.done = TRUE,
                            !.result = convert_value_to_json(call.value)]
    /\ UNCHANGED <<input_json, output_format, pc, blocks, idx, results, ret>>

SpecConvert == InitConvert /\ [][CallConvertValueToJson]_vars

ConvertCall == call.op = "convert_value_to_json" /\ call.done

\* the key of the entry is a string of valid text
TextKey(pair) == pair[1].t = "str" /\ Utf8Valid(pair[1].bytes)

\* the last entry of the pairs under the key
LastUnder(pairs, key) ==
    LET at == {i \in 1..Len(pairs) : TextKey(pairs[i]) /\ pairs[i][1].bytes = key}
    IN  pairs[CHOOSE i \in at : \A j \in at : j <= i]

\* json holds, for a map at any depth of val, exactly the keys of its
\* entries with a text key, each with the value of the last entry under it
RECURSIVE KeepsTextKeys(_, _)
KeepsTextKeys(val, json) ==
    IF val.t = "map"
    THEN /\ json.t = "object"
         /\ DOMAIN json.members =
                {val.pairs[i][1].bytes :
                    i \in {k \in 1..Len(val.pairs) : TextKey(val.pairs[k])}}
         /\ \A key \in DOMAIN json.members :
                KeepsTextKeys(LastUnder(val.pairs, key)[2], json.members[key])
    ELSE IF val.t = "array"
    THEN /\ json.t = "array"
         /\ Len(json.items) = Len(val.items)
         /\ \A i \in 1..Len(val.items) : KeepsTextKeys(val.items[i], json.items[i])
    ELSE json = convert_value_to_json(val)

\* C26 as stated: the object holds every entry with a text key, bound to
\* the conversion of its own value, and no other key.
C26_EveryTextEntryKept ==
    ConvertCall =>
        LET pairs == call.value.pairs
            obj == call.result.members
        IN  /\ \A i \in 1..Len(pairs) :
                  TextKey(pairs[i]) =>
                      /\ pairs[i][1].bytes \in DOMAIN obj
                      /\ obj[pairs[i][1].bytes] = convert_value_to_json(pairs[i][2])
            /\ \A key \in DOMAIN obj :
                  \E i \in 1..Len(pairs) : TextKey(pairs[i]) /\ pairs[i][1].bytes = key

\* C26, amended: at every depth the object of a map holds exactly the keys
\* of the entries whose key is a string of valid text; every other entry is
\* dropped; a key is bound to the conversion of the value of the last entry
\* under it.
C26_TextKeysKeptLastWins ==
    ConvertCall => KeepsTextKeys(call.value, call.result)

\* two entries under one key and different values: the second is kept
C26_Witness ==
    /\ ConvertCall
    /\ call.value = Map(<< <<String(TextA), Integer(1)>>, <<String(TextA), InnerMap>> >>)
    /\ call.result =
           JObject(MapInsert(EmptyMap, TextA,
                             JObject(MapInsert(EmptyMap, TextA, JNull))))

(***************************************************************************)
(* The size hint and the outcome of decompress_data.                       *)
(***************************************************************************)
\* one of the attempts of strategies 2 to 7 on the payload succeeds
LaterSucceeds(data) ==
    LET later == Tail(Attempts(data, WideOf(0)))
    IN  \E i \in 1..Len(later) : later[i].strategy \in 2..7 /\ RunAttempt(data, later[i]).ok

\* C27: on a payload that one of strategies 2 to 7 can read, decompress_data
\* returns a result under every hint; under any two hints the attempts
\* after the first are the same as far as both are made, and the results
\* are the same whenever strategy 1 fails under both.
C27_HintIsAdvisory ==
    (DecompressCall /\ call.data # <<>> /\ LaterSucceeds(call.data)) =>
        /\ call.result.some
        /\ \A h \in Hints :
              LET other == decompress_data(call.data, h)
              IN  /\ other.some
                  /\ (other.strategy # 1 /\ call.result.strategy # 1) =>
                        /\ other.out = call.result.out
                        /\ other.strategy = call.result.strategy
                        /\ Tail(other.tried) = Tail(call.result.tried)

\* the greatest hint on a block that strategy 1 reads under a small hint:
\* strategy 1 fails on the size and strategy 2 returns the result
C27_Witness ==
    /\ DecompressCall
    /\ call.data = HintedBlock
    /\ call.uncompressed_size = Wide(65535, 65535)
    /\ decompress_data(call.data, WideOf(1)).strategy = 1
    /\ call.result.some
    /\ call.result.strategy = 2
    /\ call.result.out = <<65>>

\* C28: every block parse_input returns carries the format tag of its
\* header descriptor as it is written there.
C28_TagIsPreserved ==
    (ParseCall /\ call.result.ok) =>
        LET items == call.parsed.items
            IsPair(i) == ValidPairAt(items, i)
            pairs == SelectSeq(ScanPositions(items, 1), IsPair)
        IN  \A k \in 1..Len(call.result.blocks) :
                call.result.blocks[k].ext_type = Index(items[pairs[k]], TextType).n

(***************************************************************************)
(* The header of the encoder read back by get_uncompressed_size.           *)
(***************************************************************************)
\* the sizes up to MaxWindow away from hi * 65536 + lo, within 0..2^32 - 1
Around(hi, lo) ==
    {w \in {Wide(hi + ((lo + k) \div 65536), (lo + k) % 65536) :
                k \in (0 - MaxWindow)..MaxWindow} :
        w.hi >= 0 /\ w.hi <= 65535}

\* sizes at the ends of the four widths of the encoder, at 2^31, and at the
\* sizes whose header starts with 204, 12, 229, 205
EncodedSizes ==
    Around(0, 0) \cup Around(0, 255) \cup Around(0, 65535)
    \cup Around(255, 65535) \cup Around(32767, 65535) \cup Around(65535, 65535)
    \cup Around(12, 58829) \cup Around(3301, 52480) \cup Around(3301, 52735)

InitHeader ==
    /\ \E n \in EncodedSizes :
          call = [op |-> "create_output_json", n |-> n, header |-> <<>>,
                  stage |-> "start", decoded |-> WideOf(0)]
    /\ NoInput

\* the header create_output_json writes for an uncompressed length n
EncodeSize ==
    /\ call.op = "create_output_json"
    /\ call.stage = "start"
    /\ LET header_data ==
               IF call.n.hi < 32768
               THEN EncodeHeader(call.n.hi * 65536 + call.n.lo)
               ELSE <<204>> \o ToBE(call.n.hi, 2) \o ToBE(call.n.lo, 2)
       IN  call' = [call EXCEPT !.header = header_data, !.stage = "encoded"]
    /\ UNCHANGED <<input_json, output_format, pc, blocks, idx, results, ret>>

\* get_uncompressed_size on the header written
DecodeEncoded ==
    /\ call.op = "create_output_json"
    /\ call.stage = "encoded"
    /\ call' = [call EXCEPT !.decoded = get_uncompressed_size(call.header),
                            !.stage = "decoded"]
    /\ UNCHANGED <<input_json, output_format, pc, blocks, idx, results, ret>>

NextHeader == EncodeSize \/ DecodeEncoded

SpecHeader == InitHeader /\ [][NextHeader]_vars

RoundTrip == call.op = "create_output_json" /\ call.stage = "decoded"

\* the sizes whose bytes behind 204 start with 12, 229, 205: 845,261 and
\* 216,387,840 to 216,388,095
EncodesKnownSample(n) ==
    \/ n = Wide(12, 58829)
    \/ n.hi = 3301 /\ n.lo \div 256 = 205

====
